---- MODULE Spec2Model ----
(***************************************************************************)
(* Verification model of the causal telemetry agent.                       *)
(*                                                                         *)
(*  Part I   BinaryProtocolShipper: staging buffer, flush, disk spill and  *)
(*           replay of the scratch file                                    *)
(*           (agent/platforms/aws-lambda/extension/src/telemetry.rs,       *)
(*            agent/core/lib/transport/buffer.rs,                          *)
(*            agent/core/lib/state/cold_start.rs).                         *)
(*  Part II  TelemetryPipeline::process_batch                              *)
(*           (agent/telemetry/src/pipeline.rs).                            *)
(*  Part III TelemetryManager and TelemetryRegistry: event channel,        *)
(*           event processor, interval tasks, start and stop               *)
(*           (agent/telemetry/src/manager.rs, registry.rs).                *)
(*  Part IV  CollectorRegistry: registration, initialize, scheduled and    *)
(*           on-demand collection, shutdown                                *)
(*           (agent/collectors/src/registry.rs).                           *)
(*  Part V   The extension's handling of host events                       *)
(*           (agent/platforms/aws-lambda/extension/src/main.rs, state.rs,  *)
(*            telemetry.rs).                                               *)
(*  Part VI  The cold-start flags                                          *)
(*           (agent/core/lib/state/cold_start.rs, startup/mod.rs,          *)
(*            startup/asm_opt.rs).                                         *)
(*  Part VII FreezeThawDetector                                            *)
(*           (agent/core/lib/platforms/lambda/freeze_thaw.rs).             *)
(*  Part VIII StatePersistence (agent/core/lib/state/persistence.rs).      *)
(*  Part IX  The staging buffer under concurrent add_metric and flush      *)
(*           (agent/core/lib/transport/buffer.rs).                         *)
(*  Part X   The event buffer of the telemetry crate                       *)
(*           (agent/telemetry/src/buffer.rs).                              *)
(*  Part XI  A batch on its way from the event buffer through the          *)
(*           processors to the transports                                  *)
(*           (agent/telemetry/src/buffer.rs, pipeline.rs, processor.rs).   *)
(*  Part XII The retry loops                                               *)
(*           (agent/telemetry/src/transport.rs,                            *)
(*            agent/core/lib/transport/retry.rs).                          *)
(*  Part XIII MemoryPool (agent/core/lib/state/memory_pool.rs).            *)
(*  Part XIV preload_components (agent/core/lib/startup/preload.rs).       *)
(*  Part XV  FieldRegistry                                                 *)
(*           (agent/core/lib/telemetry/protocol/registry.rs).              *)
(*  Part XVI CompactMetricsRecord                                          *)
(*           (agent/core/lib/telemetry/protocol/compact.rs).               *)
(*  Part XVII Lazy (agent/core/lib/startup/lazy_init.rs).                  *)
(*  Part XVIII ConditionalLazy (agent/core/lib/startup/lazy_init.rs).      *)
(*  Part XIX The auto-flush task and its start and stop                    *)
(*           (agent/core/lib/transport/buffer.rs,                          *)
(*            agent/platforms/aws-lambda/extension/src/telemetry.rs).      *)
(*  Part XX  TelemetryRegistry and the enabled flag of its collectors      *)
(*           (agent/telemetry/src/registry.rs, manager.rs).                *)
(***************************************************************************)
EXTENDS Integers, Sequences, FiniteSets, TLC

(***************************************************************************)
(* Bounds of the model.                                                    *)
(***************************************************************************)
\* batch_size handed to TelemetryBuffer::new: the flush threshold.
BatchSize == 2
\* Number of observations shipped during one run of the model.
MaxMetrics == 3
\* Most processors and most transports added to a pipeline.
MaxProcessors == 2
MaxTransports == 3
\* Capacity of the manager's event channel (mpsc::channel(1000), scaled).
ChannelCapacity == 1
\* config.buffer_threshold (100 by default, scaled).
BufferThreshold == 2
\* Number of events created during one run of the model.
MaxEvents == 2
\* Capacity of an on-demand trigger channel (mpsc::channel(10), scaled).
OnDemandCapacity == 1
\* Number of host events the extension receives in one run of the model.
MaxHostEvents == 2
\* Number of cold-start checks between two resets, and number of resets.
MaxColdCalls == 3
MaxColdResets == 2
\* Largest wall-clock reading (ms) and largest freeze threshold (ms).
MaxClock == 4
MaxThreshold == 1
\* Number of distinct non-default states and of save calls between clears.
MaxStateValue == 2
MaxSaves == 3
\* Number of entries added to the staging buffer.
MaxEntries == 3
\* Largest max_buffer_size of the event buffer and number of events added.
MaxSize == 2
MaxBufEvents == 4
\* Number of events inserted on the batch path and of processors on it.
MaxPathEvents == 4
MaxPathProcessors == 2
\* Largest max_retries / max_attempts and largest configured delay (ms).
MaxRetries == 5
MaxDelay == 2
\* Largest size of the memory pool, in units of ALIGNMENT.
MaxPoolSlots == 3
\* Largest estimate and budget, number of components of a call, and calls.
MaxEstimate == 2
MaxComponents == 3
MaxPreloadCalls == 2
\* Number of new names registered and of mappings in deserialized data.
MaxNames == 250
MaxMappings == 1
\* Number of fields added to a record.
MaxFields == 5
\* Threads sharing one Lazy, and calls they make in total.
MaxLazyThreads == 3
MaxLazyCalls == 4
\* Calls made on one ConditionalLazy.
MaxCondCalls == 5
\* Auto-flush tasks spawned during one run of the model.
MaxAutoTasks == 3

\* The tasks that call into the shipper: the host-event handler
\* (process_event / force_flush) and the auto-flush background task.
Callers == {"handler", "auto"}

\* Outcome of one HTTP POST made by reqwest: a 2xx response, a response
\* with an error status, or no response at all (send() returns Err).
HttpOutcomes == {"ok", "http_error", "net_error"}

VARIABLES
    \* ---- Part I: shipper --------------------------------------------
    COLD_START,      \* cold_start.rs: process-wide AtomicBool
    buffer,          \* core TelemetryBuffer.buffer: staged entries (ids)
    poolFree,        \* free slots of METRICS_POOL
    scratchFile,     \* bytes of <temp_dir>/metrics-buffer.bin (<<>> = absent or empty)
    pc,              \* per caller: position in ship_metrics / flush
    position,        \* per caller: send_backed_up_metrics local
    file_size,       \* per caller: send_backed_up_metrics local
    batch,           \* per caller: frame read back from the scratch file
    binary_data,     \* per caller: frame serialized by flush
    nextId,          \* id of the next observation
    sink,            \* frames the sink acknowledged with a 2xx, in order
    produced,        \* history: frames serialized by flush, in order
    send_result,     \* per caller: result of the last ship_http_with_retry
    sendLog,         \* history: results of completed sends, in order
    replayRemoved,   \* history: replay deleted the scratch file
    replayAborted,   \* history: replay stopped at a malformed length prefix
    replaySent,      \* history: number of POSTs made by replay
    undelivered,     \* history: whole frames that were in the file when
                     \*          replay deleted it and got no 2xx
    \* ---- Part II: pipeline ------------------------------------------
    processors,      \* TelemetryPipeline.processors: number of stages
    transports,      \* TelemetryPipeline.transports: number of sinks
    pipePc,          \* position of the process_batch call
    procResults,     \* results of the processor stages run so far
    results,         \* results of the transport futures ("pending" until done)
    pipeRet,         \* what process_batch returned
    \* ---- Part III: telemetry manager --------------------------------
    collectors,      \* TelemetryRegistry.collectors: registered ids
    pipeline,        \* TelemetryManager.pipeline: "None" or "Some"
    mgrRunning,      \* TelemetryManager.running
    event_chan,      \* the mpsc channel event_tx -> event_rx
    mgrBuffer,       \* TelemetryManager.buffer
    bufferLock,      \* holder of the buffer write lock
    procPc,          \* position of the event processor task
    procEvent,       \* event the processor took from the channel
    inflight,        \* per flusher: batch handed to process_batch
    stopPc,          \* position of a stop() call
    collector_ids,   \* per interval group: ids captured by its task
    taskPc,          \* per interval group: position of its task
    taskIdx,         \* per interval group: index in collector_ids
    taskEvent,       \* per interval group: event being sent
    aborted,         \* per interval group: abort() was called on the handle
    failedInit,      \* history: collectors whose initialize() returned an error
    registration,    \* history: the registered collectors in the order of
                     \*          their register_collector calls
    tickError,       \* history, per group: a collect_from failed earlier in
                     \*          the tick that is under way
    prodPc,          \* position of an add_event caller
    prodEvent,       \* event of the add_event caller
    nextEvent,       \* id of the next event
    everStarted,     \* history: start() has run
    accepted,        \* history: events put into the channel
    acceptedAtStop,  \* history: accepted when stop() was called
    handed,          \* history: events of batches given to process_batch
    failedEvents,    \* history: events of batches process_batch failed on
    stopReturned,    \* history: stop() has returned
    lateCollect,     \* history: a collect began after stop() returned
    \* ---- Part IV: CollectorRegistry ---------------------------------
    regCollectors,   \* CollectorRegistry.collectors: id -> config
    on_demand_channels, \* ids that have an on-demand sender
    onDemandPending, \* per id: triggers queued for the on-demand task
    initialized,     \* CollectorRegistry.initialized
    running,         \* CollectorRegistry.running
    startThread,     \* what became of the start_scheduled_collection caller
    regFailedInit,   \* history: ids whose initialize() returned an error
    regInvoked,      \* history: ids whose collect() ran since initialize
    \* ---- Part V: host events of the Lambda extension ----------------
    stateMutex,      \* state_manager: "free" or the task that holds it
    invoke_count,    \* LambdaStateManager.state.invoke_count
    hostPc,          \* position of the service closure
    hostEvent,       \* the event the closure is handling
    hostEvents,      \* number of host events received
    shutdownReceived, \* a Shutdown event has been received
    countAtEvent,    \* history: invoke_count when the event was received
    eventsHandled,   \* history: events for which the closure returned
    perInvocationCollects, \* history: collect() calls made for host events
    \* ---- Part VI: cold-start flags ----------------------------------
    IS_COLD_START,   \* startup/mod.rs: static AtomicBool
    ASM_COLD_START,  \* asm_opt.rs: the static COLD_START local to
                     \*   is_cold_start_asm
    startupCalls,    \* history: startup::is_cold_start calls since process
                     \*   start or the last startup::reset_cold_start
    lastStartup,     \* history: what the latest of those calls returned
    coldCalls,       \* history: cold-start checks of any module since
                     \*   process start or the last reset
    coldTrue,        \* history: how many of those returned true
    coldResets,      \* history: number of reset calls
    \* ---- Part VII: freeze/thaw detector -----------------------------
    wallClock,           \* SystemTime::now() in ms
    last_activity,       \* FreezeThawDetector.last_activity
    freeze_threshold_ms, \* FreezeThawDetector.freeze_threshold_ms
    frozenCalls,         \* history: the latest was_frozen calls
    quiet,               \* history: nothing happened since the latest
                         \*   was_frozen call returned
    \* ---- Part VIII: StatePersistence --------------------------------
    stateFile,       \* contents of the primary state file, or Absent
    backupFile,      \* contents of the backup file, or Absent
    saved,           \* history: states of the successful save calls since
                     \*   the files were last cleared, oldest first
    corruptedAfterSave, \* history: the primary file was corrupted after
                     \*   the latest save
    lastLoad,        \* history: the latest load call
    loadRecovered,   \* history: the latest call was a load from the backup
    \* ---- Part IX: staging buffer (core/lib/transport/buffer.rs) ------
    stagingBuffer,   \* TelemetryBuffer.buffer: Vec of entries
    stagingLock,     \* holder of the buffer's mutex, or "free"
    metrics_count,   \* TelemetryBuffer.metrics_count
    stPc,            \* per task: where it is in add_metric or flush
    stEntry,         \* per task: the entry its add_metric carries
    stTaken,         \* per task: the entries its flush has drained
    nextEntry,       \* next entry to be added
    addedEntries,    \* history: entries pushed by add_metric
    flushReturns,    \* history: what each flush call returned
    \* ---- Part X: event buffer (telemetry/src/buffer.rs) --------------
    evBuffer,        \* TelemetryBuffer.buffer: VecDeque of events
    max_size,        \* TelemetryBuffer.max_size
    flush_threshold, \* TelemetryBuffer.flush_threshold
    evPipeline,      \* TelemetryBuffer.pipeline: "None" or "Some"
    evRunning,       \* TelemetryBuffer.running
    evStarted,       \* the processing task has been spawned
    evChannel,       \* events sent on event_tx and not yet received
    nextBufEvent,    \* next event to be added
    lastArrival,     \* history: the latest event the task received
    evBatches,       \* history: batches handed to the pipeline
    \* ---- Part XI: the path of a batch from buffer to transports ------
    pathPipeline,    \* the processors of the pipeline, in order
    pathBuffer,      \* the event buffer, oldest first
    pathBatch,       \* events of the batch inside process_batch
    pathStage,       \* 0: no batch; i: processor i is next; past the last
                     \*   processor: the transports are next
    nextPathEvent,   \* insertion number of the next event
    pathDelivered,   \* history: per transport, the batches it was sent
    \* ---- Part XII: the retry loops ----------------------------------
    max_retries,     \* RetryConfig.max_retries
    initial_delay,   \* RetryConfig.initial_delay (ms)
    max_delay,       \* RetryConfig.max_delay (ms)
    backoff_halves,  \* RetryConfig.backoff_factor, in halves (3 is 1.5)
    httpPc,          \* send_batch: "none", "idle", "send", "sleep", "done"
    retry_count,     \* send_batch: retry_count
    delay,           \* send_batch: delay (ms)
    httpAttempts,    \* history: send_http_request calls of send_batch
    httpWaits,       \* history: the sleeps of send_batch (ms)
    httpResult,      \* what send_batch returned
    max_attempts,    \* ship_with_retry: max_attempts
    retry_delay,     \* ship_with_retry: retry_delay (ms)
    shipPc,          \* ship_with_retry: "none", "idle", "attempt", "sleep",
                     \*   "done"
    attempt,         \* ship_with_retry: the loop variable
    shipAttempts,    \* history: requests sent by ship_with_retry
    shipWaits,       \* history: the sleeps of ship_with_retry before
                     \*   jitter (ms)
    shipResult,      \* what ship_with_retry returned
    \* ---- Part XIII: MemoryPool ---------------------------------------
    buffer_size,     \* MemoryPool.buffer_size, in units of ALIGNMENT
    next_free,       \* MemoryPool.next_free, in units of ALIGNMENT
    max_used,        \* MemoryPool.max_used, in units of ALIGNMENT
    poolLive,        \* the PoolAllocations callers hold: offset and size
    lastAllocate,    \* history: the latest allocate call
    poolGiven,       \* history: units handed out since the last reset()
    poolOverlap,     \* history: a unit was handed out twice without reset()
    \* ---- Part XIV: preload_components --------------------------------
    PRELOAD_COMPLETED, \* startup/preload.rs: static AtomicBool
    preComponents,   \* estimated_memory of the components of the call
    memory_limit,    \* the budget of the call, or NoLimit
    prePc,           \* "idle", or "loop" inside the call
    preIdx,          \* the component the loop is at
    total_memory,    \* total_memory of the call
    preLog,          \* history: per component of the latest call, its
                     \*   estimate and whether preload() ran
    preSkipped,      \* history: the latest call found PRELOAD_COMPLETED set
    preCalls,        \* history: number of calls
    \* ---- Part XV: FieldRegistry --------------------------------------
    name_to_id,      \* FieldRegistry.name_to_id
    id_to_name,      \* FieldRegistry.id_to_name
    next_id,         \* FieldRegistry.next_id (u8)
    nextName,        \* next name that is new to the registry
    lastField,       \* history: the latest operation on the registry
    everDeserialized,\* history: the registry came out of deserialize
    \* ---- Part XVI: CompactMetricsRecord ------------------------------
    bitpacked_data,  \* Vec<u64>: each block as the set of its set bits
    field_mapping,   \* field id -> (block index, bit offset)
    fieldWidth,      \* history: field id -> number of bits of the field
    nextFieldId,     \* next field id to be added
    \* ---- Part XVII: Lazy ---------------------------------------------
    init_once,       \* Once: "incomplete", "running", "complete", "poisoned"
    lazy_init,       \* init: TRUE while the function is still there (Some)
    lazy_value,      \* value: NoValue (None) or the value stored
    initRuns,        \* history: times the init function has run
    lazyPc,          \* thread -> position inside initialize()
    lazyGot,         \* history: thread -> value its last call returned
    lazyCalls,       \* calls of get() / initialize() / is_initialized() made
    everProbed,      \* history: is_initialized() has been called
    lazyProbe,       \* history: <<what the last is_initialized() returned,
                     \*            whether init had completed then>>
    \* ---- Part XVIII: ConditionalLazy ---------------------------------
    cond_predicate,  \* what the predicate closure returns
    cond_evaluated,  \* evaluated: Mutex<bool>
    cond_once,       \* inner.init_once: "incomplete" or "complete"
    cond_value,      \* inner.value: NoValue (None) or the value stored
    condInitRuns,    \* history: times the inner init function has run
    condPoisoned,    \* a call panicked while it held the evaluated mutex
    condLog,         \* history: <<call, what it returned, init runs so far>>
    \* ---- Part XIX: the auto-flush task -------------------------------
    auto_flush_running, \* AtomicBool shared by the calls and the tasks
    autoTask,           \* spawned task -> position in its loop
    autoSpawned,        \* number of tasks spawned so far
    autoLateFlush,      \* history: a flush began with the flag cleared
    \* ---- Part XX: TelemetryRegistry and the enabled flag --------------
    telCollectors,   \* id -> "absent", or config.enabled of the collector
    telGroup,        \* ids captured by the interval task, in its order
    telStarted,      \* start_collection_intervals has run
    telTaskIdx,      \* interval task: 0 at the ticker, else index in group
    calledDisabled   \* history: ids whose collect() ran while disabled

shipVars == <<COLD_START, buffer, poolFree, scratchFile, pc, position,
              file_size, batch, binary_data, nextId, sink, produced,
              send_result, sendLog, replayRemoved, replayAborted,
              replaySent, undelivered>>

pipeVars == <<processors, transports, pipePc, procResults, results, pipeRet>>

mgrVars == <<collectors, pipeline, mgrRunning, event_chan, mgrBuffer,
             bufferLock, procPc, procEvent, inflight, stopPc, collector_ids,
             taskPc, taskIdx, taskEvent, aborted, failedInit, registration,
             tickError, prodPc,
             prodEvent,
             nextEvent, everStarted, accepted, acceptedAtStop, handed,
             failedEvents, stopReturned, lateCollect>>

regVars == <<regCollectors, on_demand_channels, onDemandPending, initialized,
             running, startThread, regFailedInit, regInvoked>>

extVars == <<stateMutex, invoke_count, hostPc, hostEvent, hostEvents,
             shutdownReceived, countAtEvent, eventsHandled,
             perInvocationCollects>>

coldVars == <<IS_COLD_START, ASM_COLD_START, startupCalls, lastStartup,
              coldCalls, coldTrue, coldResets>>

freezeVars == <<wallClock, last_activity, freeze_threshold_ms, frozenCalls,
                quiet>>

persistVars == <<stateFile, backupFile, saved, corruptedAfterSave, lastLoad,
                 loadRecovered>>

stagingVars == <<stagingBuffer, stagingLock, metrics_count, stPc, stEntry,
                 stTaken, nextEntry, addedEntries, flushReturns>>

evVars == <<evBuffer, max_size, flush_threshold, evPipeline, evRunning,
            evStarted, evChannel, nextBufEvent, lastArrival, evBatches>>

pathVars == <<pathPipeline, pathBuffer, pathBatch, pathStage, nextPathEvent,
              pathDelivered>>

retryVars == <<max_retries, initial_delay, max_delay, backoff_halves, httpPc,
               retry_count, delay, httpAttempts, httpWaits, httpResult,
               max_attempts, retry_delay, shipPc, attempt, shipAttempts,
               shipWaits, shipResult>>

poolVars == <<buffer_size, next_free, max_used, poolLive, lastAllocate,
             poolGiven, poolOverlap>>

preloadVars == <<PRELOAD_COMPLETED, preComponents, memory_limit, prePc, preIdx,
                 total_memory, preLog, preSkipped, preCalls>>

fieldVars == <<name_to_id, id_to_name, next_id, nextName, lastField,
               everDeserialized>>

compactVars == <<bitpacked_data, field_mapping, fieldWidth, nextFieldId>>

lazyVars == <<init_once, lazy_init, lazy_value, initRuns, lazyPc, lazyGot,
              lazyCalls, everProbed, lazyProbe>>

condVars == <<cond_predicate, cond_evaluated, cond_once, cond_value,
              condInitRuns, condPoisoned, condLog>>

autoVars == <<auto_flush_running, autoTask, autoSpawned, autoLateFlush>>

telVars == <<telCollectors, telGroup, telStarted, telTaskIdx, calledDisabled>>

vars == <<shipVars, pipeVars, mgrVars, regVars, extVars, coldVars, freezeVars, persistVars, stagingVars, evVars, pathVars, retryVars, poolVars, preloadVars, fieldVars, compactVars, lazyVars, condVars, autoVars, telVars>>

\* The variables outside each part.
nonShipVars == <<pipeVars, mgrVars, regVars, extVars, coldVars, freezeVars, persistVars, stagingVars, evVars, pathVars, retryVars, poolVars, preloadVars, fieldVars, compactVars, lazyVars, condVars, autoVars, telVars>>
nonPipeVars == <<shipVars, mgrVars, regVars, extVars, coldVars, freezeVars, persistVars, stagingVars, evVars, pathVars, retryVars, poolVars, preloadVars, fieldVars, compactVars, lazyVars, condVars, autoVars, telVars>>
nonMgrVars == <<shipVars, pipeVars, regVars, extVars, coldVars, freezeVars, persistVars, stagingVars, evVars, pathVars, retryVars, poolVars, preloadVars, fieldVars, compactVars, lazyVars, condVars, autoVars, telVars>>
nonRegVars == <<shipVars, pipeVars, mgrVars, extVars, coldVars, freezeVars, persistVars, stagingVars, evVars, pathVars, retryVars, poolVars, preloadVars, fieldVars, compactVars, lazyVars, condVars, autoVars, telVars>>
nonExtVars == <<shipVars, pipeVars, mgrVars, regVars, coldVars, freezeVars, persistVars, stagingVars, evVars, pathVars, retryVars, poolVars, preloadVars, fieldVars, compactVars, lazyVars, condVars, autoVars, telVars>>
nonExtShipVars == <<pipeVars, mgrVars, regVars, coldVars, freezeVars, persistVars, stagingVars, evVars, pathVars, retryVars, poolVars, preloadVars, fieldVars, compactVars, lazyVars, condVars, autoVars, telVars>>
nonColdVars == <<pipeVars, mgrVars, regVars, extVars, freezeVars, persistVars, stagingVars, evVars, pathVars, retryVars, poolVars, preloadVars, fieldVars, compactVars, lazyVars, condVars, autoVars, telVars>>
nonFreezeVars == <<shipVars, pipeVars, mgrVars, regVars, extVars, coldVars, persistVars, stagingVars, evVars, pathVars, retryVars, poolVars, preloadVars, fieldVars, compactVars, lazyVars, condVars, autoVars, telVars>>
nonPersistVars == <<shipVars, pipeVars, mgrVars, regVars, extVars, coldVars, freezeVars, stagingVars, evVars, pathVars, retryVars, poolVars, preloadVars, fieldVars, compactVars, lazyVars, condVars, autoVars, telVars>>
nonStagingVars == <<shipVars, pipeVars, mgrVars, regVars, extVars, coldVars, freezeVars, persistVars, evVars, pathVars, retryVars, poolVars, preloadVars, fieldVars, compactVars, lazyVars, condVars, autoVars, telVars>>
nonEvVars == <<shipVars, pipeVars, mgrVars, regVars, extVars, coldVars, freezeVars, persistVars, stagingVars, pathVars, retryVars, poolVars, preloadVars, fieldVars, compactVars, lazyVars, condVars, autoVars, telVars>>
nonPathVars == <<shipVars, pipeVars, mgrVars, regVars, extVars, coldVars, freezeVars, persistVars, stagingVars, evVars, retryVars, poolVars, preloadVars, fieldVars, compactVars, lazyVars, condVars, autoVars, telVars>>
nonRetryVars == <<shipVars, pipeVars, mgrVars, regVars, extVars, coldVars, freezeVars, persistVars, stagingVars, evVars, pathVars, poolVars, preloadVars, fieldVars, compactVars, lazyVars, condVars, autoVars, telVars>>
nonPoolVars == <<shipVars, pipeVars, mgrVars, regVars, extVars, coldVars, freezeVars, persistVars, stagingVars, evVars, pathVars, retryVars, preloadVars, fieldVars, compactVars, lazyVars, condVars, autoVars, telVars>>
nonPreloadVars == <<shipVars, pipeVars, mgrVars, regVars, extVars, coldVars, freezeVars, persistVars, stagingVars, evVars, pathVars, retryVars, poolVars, fieldVars, compactVars, lazyVars, condVars, autoVars, telVars>>
nonFieldVars == <<shipVars, pipeVars, mgrVars, regVars, extVars, coldVars, freezeVars, persistVars, stagingVars, evVars, pathVars, retryVars, poolVars, preloadVars, compactVars, lazyVars, condVars, autoVars, telVars>>
nonCompactVars == <<shipVars, pipeVars, mgrVars, regVars, extVars, coldVars, freezeVars, persistVars, stagingVars, evVars, pathVars, retryVars, poolVars, preloadVars, fieldVars, lazyVars, condVars, autoVars, telVars>>
nonLazyVars == <<shipVars, pipeVars, mgrVars, regVars, extVars, coldVars, freezeVars, persistVars, stagingVars, evVars, pathVars, retryVars, poolVars, preloadVars, fieldVars, compactVars, condVars, autoVars, telVars>>
nonCondVars == <<shipVars, pipeVars, mgrVars, regVars, extVars, coldVars, freezeVars, persistVars, stagingVars, evVars, pathVars, retryVars, poolVars, preloadVars, fieldVars, compactVars, lazyVars, autoVars, telVars>>
nonAutoVars == <<shipVars, pipeVars, mgrVars, regVars, extVars, coldVars, freezeVars, persistVars, stagingVars, evVars, pathVars, retryVars, poolVars, preloadVars, fieldVars, compactVars, lazyVars, condVars, telVars>>
nonTelVars == <<shipVars, pipeVars, mgrVars, regVars, extVars, coldVars, freezeVars, persistVars, stagingVars, evVars, pathVars, retryVars, poolVars, preloadVars, fieldVars, compactVars, lazyVars, condVars, autoVars>>

(***************************************************************************)
(* Byte-level helpers.                                                     *)
(***************************************************************************)
\* u32::to_le_bytes
U32ToLe(n) ==
    << n % 256, (n \div 256) % 256, (n \div 65536) % 256, (n \div 16777216) % 256 >>

\* u32::from_le_bytes
U32FromLe(b) ==
    b[1] + 256 * b[2] + 65536 * b[3] + 16777216 * b[4]

\* Bytes of s after the first n.
DropBytes(s, n) == SubSeq(s, n + 1, Len(s))

\* serialize_metrics_binary: the frame of a batch.  The frame is opaque to
\* the spill and replay code; the model keeps the metric count of the
\* header followed by one identifying byte per metric.
serialize_metrics_binary(entries) == <<Len(entries)>> \o entries

\* TelemetryBuffer::backup_buffer: append length(4, LE) | data.  Frames are
\* far shorter than 2^32 bytes, so `data.len() as u32` keeps the length.
backup_buffer_overwrite(contents, data) ==
    IF data = <<>> THEN contents
    ELSE U32ToLe(Len(data)) \o data

backup_buffer(contents, data) ==
    IF data = <<>> THEN contents
    ELSE contents \o U32ToLe(Len(data)) \o data

\* The whole frames a reader of the backup layout finds in a byte string,
\* up to the first length prefix that is short, zero or overlong.
RECURSIVE ParseFrames(_)
ParseFrames(bytes) ==
    IF Len(bytes) < 4 THEN <<>>
    ELSE LET n == U32FromLe(SubSeq(bytes, 1, 4)) IN
         IF n = 0 \/ 4 + n > Len(bytes) THEN <<>>
         ELSE <<SubSeq(bytes, 5, 4 + n)>> \o ParseFrames(DropBytes(bytes, 4 + n))

\* Contents of the scratch file found at process start: nothing, frames
\* left by an earlier process, and files whose last write was cut short.
InitialScratchFiles ==
    { <<>>,
      <<2, 0, 0, 0, 1, 9>>,
      <<2, 0>>,
      <<0, 0, 0, 0, 2, 0, 0, 0, 1, 9>>,
      <<3, 0, 0, 0, 1, 9>>,
      <<2, 0, 0, 0, 1, 9, 2, 0, 0, 0, 1>> }

(***************************************************************************)
(* Part I: initial state.                                                  *)
(***************************************************************************)
ShipInit ==
    /\ COLD_START = TRUE
    /\ buffer = <<>>
    /\ poolFree = MaxMetrics
    /\ scratchFile \in InitialScratchFiles
    /\ pc = [c \in Callers |-> "idle"]
    /\ position = [c \in Callers |-> 0]
    /\ file_size = [c \in Callers |-> 0]
    /\ batch = [c \in Callers |-> <<>>]
    /\ binary_data = [c \in Callers |-> <<>>]
    /\ nextId = 1
    /\ sink = <<>>
    /\ produced = <<>>
    /\ send_result = [c \in Callers |-> "none"]
    /\ sendLog = <<>>
    /\ replayRemoved = FALSE
    /\ replayAborted = FALSE
    /\ replaySent = 0
    /\ undelivered = <<>>

(***************************************************************************)
(* Part I: actions.                                                        *)
(***************************************************************************)
\* BinaryProtocolShipper::ship_metrics up to the call of flush:
\* METRICS_POOL.alloc, TelemetryBuffer::add_metric.
ShipMetrics(c) ==
    /\ UNCHANGED nonShipVars
    /\ pc[c] = "idle"
    /\ nextId <= MaxMetrics
    /\ poolFree > 0
    /\ poolFree' = poolFree - 1
    /\ buffer' = Append(buffer, nextId)
    /\ nextId' = nextId + 1
    /\ pc' = [pc EXCEPT ![c] = IF Len(buffer') >= BatchSize THEN "flush" ELSE "idle"]
    /\ UNCHANGED <<COLD_START, scratchFile, position, file_size, batch,
                   binary_data, sink, produced, send_result, sendLog,
                   replayRemoved, replayAborted, replaySent, undelivered>>

\* A direct call of flush: auto-flush tick, Shutdown event, force_flush.
FlushCall(c) ==
    /\ UNCHANGED nonShipVars
    /\ pc[c] = "idle"
    /\ pc' = [pc EXCEPT ![c] = "flush"]
    /\ UNCHANGED <<COLD_START, buffer, poolFree, scratchFile, position,
                   file_size, batch, binary_data, nextId, sink, produced,
                   send_result, sendLog, replayRemoved, replayAborted,
                   replaySent, undelivered>>

\* LambdaStateManager::record_invoke builds its snapshot with
\* is_cold_start(), which swaps the same flag to false.
RecordInvoke ==
    /\ UNCHANGED nonShipVars
    /\ COLD_START = TRUE
    /\ COLD_START' = FALSE
    /\ UNCHANGED <<buffer, poolFree, scratchFile, pc, position, file_size,
                   batch, binary_data, nextId, sink, produced, send_result,
                   sendLog, replayRemoved, replayAborted, replaySent,
                   undelivered>>

\* flush, first part: update_schema (no schema endpoint is configured),
\* is_cold_start(), and the entry of send_backed_up_metrics.
FlushBegin(c) ==
    /\ UNCHANGED nonShipVars
    /\ pc[c] = "flush"
    /\ COLD_START' = FALSE
    /\ IF COLD_START /\ scratchFile # <<>>
       THEN /\ position' = [position EXCEPT ![c] = 0]
            /\ file_size' = [file_size EXCEPT ![c] = Len(scratchFile)]
            /\ pc' = [pc EXCEPT ![c] = "replay"]
       ELSE /\ pc' = [pc EXCEPT ![c] = "drain"]
            /\ UNCHANGED <<position, file_size>>
    /\ UNCHANGED <<buffer, poolFree, scratchFile, batch, binary_data, nextId,
                   sink, produced, send_result, sendLog, replayRemoved,
                   replayAborted, replaySent, undelivered>>

\* The prefix at the read position is unusable: fewer than 4 bytes are
\* left (read_exact fails), or the length is zero or reaches past file_size.
MalformedAt(c) ==
    \/ position[c] + 4 > Len(scratchFile)
    \/ LET batch_len == U32FromLe(SubSeq(scratchFile, position[c] + 1, position[c] + 4)) IN
          \/ batch_len = 0
          \/ position[c] + 4 + batch_len > file_size[c]
          \/ position[c] + 4 + batch_len > Len(scratchFile)

\* remove_file at the end of send_backed_up_metrics, with the history of
\* what was still in the file.
RemoveScratch(c, malformed) ==
    /\ scratchFile' = <<>>
    /\ replayRemoved' = TRUE
    /\ replayAborted' = (replayAborted \/ malformed)
    /\ undelivered' = undelivered \o ParseFrames(DropBytes(scratchFile, position[c]))
    /\ pc' = [pc EXCEPT ![c] = "drain"]

\* Variant: a malformed prefix returns like a failed send, keeping the file.
ReplayNext_KeepOnMalformed(c) ==
    /\ UNCHANGED nonShipVars
    /\ pc[c] = "replay"
    /\ IF position[c] >= file_size[c]
       THEN /\ RemoveScratch(c, FALSE)
            /\ UNCHANGED <<position, batch>>
       ELSE IF MalformedAt(c)
       THEN /\ pc' = [pc EXCEPT ![c] = "drain"]
            /\ replayAborted' = TRUE
            /\ UNCHANGED <<position, batch, scratchFile, replayRemoved, undelivered>>
       ELSE LET batch_len == U32FromLe(SubSeq(scratchFile, position[c] + 1, position[c] + 4)) IN
            /\ batch' = [batch EXCEPT ![c] =
                            SubSeq(scratchFile, position[c] + 5, position[c] + 4 + batch_len)]
            /\ position' = [position EXCEPT ![c] = position[c] + 4 + batch_len]
            /\ pc' = [pc EXCEPT ![c] = "replay_send"]
            /\ UNCHANGED <<scratchFile, replayRemoved, replayAborted, undelivered>>
    /\ UNCHANGED <<COLD_START, buffer, poolFree, file_size, binary_data,
                   nextId, sink, produced, send_result, sendLog, replaySent>>

\* send_backed_up_metrics, one turn of `while position < file_size` up to
\* the POST: read the prefix and the frame, or leave the loop and delete
\* the file.
ReplayNext(c) ==
    /\ UNCHANGED nonShipVars
    /\ pc[c] = "replay"
    /\ IF position[c] >= file_size[c]
       THEN /\ RemoveScratch(c, FALSE)
            /\ UNCHANGED <<position, batch>>
       ELSE IF MalformedAt(c)
       THEN /\ RemoveScratch(c, TRUE)
            /\ UNCHANGED <<position, batch>>
       ELSE LET batch_len == U32FromLe(SubSeq(scratchFile, position[c] + 1, position[c] + 4)) IN
            /\ batch' = [batch EXCEPT ![c] =
                            SubSeq(scratchFile, position[c] + 5, position[c] + 4 + batch_len)]
            /\ position' = [position EXCEPT ![c] = position[c] + 4 + batch_len]
            /\ pc' = [pc EXCEPT ![c] = "replay_send"]
            /\ UNCHANGED <<scratchFile, replayRemoved, replayAborted, undelivered>>
    /\ UNCHANGED <<COLD_START, buffer, poolFree, file_size, binary_data,
                   nextId, sink, produced, send_result, sendLog, replaySent>>

\* send_backed_up_metrics, the POST of one frame: any response is taken as
\* sent (`Ok(_)`), only a transport error leaves the function, and then
\* without deleting the file.
ReplaySend(c, outcome) ==
    /\ UNCHANGED nonShipVars
    /\ pc[c] = "replay_send"
    /\ replaySent' = replaySent + 1
    /\ sink' = IF outcome = "ok" THEN Append(sink, batch[c]) ELSE sink
    /\ undelivered' = IF outcome = "http_error" THEN Append(undelivered, batch[c])
                      ELSE undelivered
    /\ pc' = [pc EXCEPT ![c] = IF outcome = "net_error" THEN "drain" ELSE "replay"]
    /\ UNCHANGED <<COLD_START, buffer, poolFree, scratchFile, position,
                   file_size, batch, binary_data, nextId, produced,
                   send_result, sendLog, replayRemoved, replayAborted>>

\* flush, second part: TelemetryBuffer::flush drains the staged entries;
\* an empty drain returns, otherwise the frame is serialized.
Drain(c) ==
    /\ UNCHANGED nonShipVars
    /\ pc[c] = "drain"
    /\ IF buffer = <<>>
       THEN /\ pc' = [pc EXCEPT ![c] = "idle"]
            /\ UNCHANGED <<buffer, binary_data, produced>>
       ELSE /\ binary_data' = [binary_data EXCEPT ![c] = serialize_metrics_binary(buffer)]
            /\ produced' = Append(produced, serialize_metrics_binary(buffer))
            /\ buffer' = <<>>
            /\ pc' = [pc EXCEPT ![c] = "send"]
    /\ UNCHANGED <<COLD_START, poolFree, scratchFile, position, file_size,
                   batch, nextId, sink, send_result, sendLog, replayRemoved,
                   replayAborted, replaySent, undelivered>>

\* ship_http_with_retry: the results it returns, Ok once the sink has
\* accepted the frame, Err when the retries are used up.
ship_http_with_retry == {"ok", "err"}

\* flush, last part: the send returns, the entries go back to the pool,
\* and a failed send is backed up to the scratch file.
ShipComplete(c, result) ==
    /\ UNCHANGED nonShipVars
    /\ pc[c] = "send"
    /\ result \in ship_http_with_retry
    /\ poolFree' = poolFree + binary_data[c][1]
    /\ send_result' = [send_result EXCEPT ![c] = result]
    /\ sendLog' = Append(sendLog, result)
    /\ sink' = IF result = "ok" THEN Append(sink, binary_data[c]) ELSE sink
    /\ scratchFile' = IF result = "err" THEN backup_buffer(scratchFile, binary_data[c])
                      ELSE scratchFile
    /\ pc' = [pc EXCEPT ![c] = "idle"]
    /\ UNCHANGED <<COLD_START, buffer, position, file_size, batch, binary_data,
                   nextId, produced, replayRemoved, replayAborted, replaySent,
                   undelivered>>

(***************************************************************************)
(* Part I: properties.                                                     *)
(***************************************************************************)
AllIdle == \A c \in Callers : pc[c] = "idle"

\* s ends with the sequence t.
EndsWith(s, t) ==
    /\ Len(t) <= Len(s)
    /\ SubSeq(s, Len(s) - Len(t) + 1, Len(s)) = t

\* C1: once a flush whose send succeeded follows a flush whose send failed
\* and spilled, the scratch file is empty and the sink holds every frame
\* produced so far, in the order of production.
C1_ReplayOnNextSuccess ==
    ( /\ AllIdle
      /\ Len(sendLog) >= 2
      /\ sendLog[Len(sendLog)] = "ok"
      /\ sendLog[Len(sendLog) - 1] = "err" )
    => ( /\ scratchFile = <<>>
         /\ EndsWith(sink, produced) )

\* C2: replay deletes the scratch file only when every whole frame stored
\* in it has been acknowledged by the sink with a success.
C2_RemovedOnlyWhenDelivered ==
    replayRemoved => undelivered = <<>>

\* C3: a flush whose send fails appends length(4, LE) | frame to the end of
\* the scratch file and leaves the bytes already there unchanged.
C3_SpillAppendsOneFrame ==
    [][ \A c \in Callers :
          (pc[c] = "send" /\ pc'[c] = "idle" /\ send_result'[c] = "err")
          => ( /\ Len(scratchFile') = Len(scratchFile) + 4 + Len(binary_data[c])
               /\ SubSeq(scratchFile', 1, Len(scratchFile)) = scratchFile
               /\ U32FromLe(SubSeq(scratchFile', Len(scratchFile) + 1,
                                   Len(scratchFile) + 4)) = Len(binary_data[c])
               /\ DropBytes(scratchFile', Len(scratchFile) + 4) = binary_data[c] )
      ]_vars

\* C3 witness: a failed send has returned and its frame is the last of at
\* least two whole frames in the scratch file.
C3_Witness ==
    \E c \in Callers :
        /\ pc[c] = "idle"
        /\ send_result[c] = "err"
        /\ Len(ParseFrames(scratchFile)) >= 2
        /\ ParseFrames(scratchFile)[Len(ParseFrames(scratchFile))] = binary_data[c]

\* The length prefix at the read position of caller c can be read and is
\* zero or larger than the bytes that follow it in the file.
BadPrefixAt(c) ==
    /\ position[c] < file_size[c]
    /\ position[c] + 4 <= Len(scratchFile)
    /\ LET n == U32FromLe(SubSeq(scratchFile, position[c] + 1, position[c] + 4)) IN
          n = 0 \/ n > Len(scratchFile) - (position[c] + 4)

\* C4: when replay reads a length prefix that is zero or larger than the
\* bytes remaining, it leaves the loop without a POST, the scratch file is
\* emptied, and replay makes no POST afterwards.
C4_MalformedPrefixAbortsAndEmpties ==
    /\ [][ \A c \in Callers :
             (pc[c] = "replay" /\ BadPrefixAt(c) /\ pc'[c] # "replay")
             => ( /\ scratchFile' = <<>>
                  /\ pc'[c] = "drain"
                  /\ replayAborted'
                  /\ sink' = sink
                  /\ replaySent' = replaySent )
         ]_vars
    /\ [][ replayAborted => replaySent' = replaySent ]_vars

\* C4 witness: replay delivered a frame, then met a malformed prefix, and
\* the scratch file is empty.
C4_Witness ==
    /\ replayAborted
    /\ replaySent >= 1
    /\ scratchFile = <<>>


ShipNext ==
    \/ \E c \in Callers : ShipMetrics(c)
    \/ \E c \in Callers : FlushCall(c)
    \/ RecordInvoke
    \/ \E c \in Callers : FlushBegin(c)
    \/ \E c \in Callers : ReplayNext(c)
    \/ \E c \in Callers, outcome \in HttpOutcomes : ReplaySend(c, outcome)
    \/ \E c \in Callers : Drain(c)
    \/ \E c \in Callers, result \in ship_http_with_retry : ShipComplete(c, result)


(***************************************************************************)
(* Part II: TelemetryPipeline.                                             *)
(***************************************************************************)
\* TelemetryPipeline::new: no processor, no transport, no call in progress.
PipeInit ==
    /\ processors = 0
    /\ transports = 0
    /\ pipePc = "idle"
    /\ procResults = <<>>
    /\ results = <<>>
    /\ pipeRet = "none"

\* add_processor; it takes the write lock, so no call is in progress.
add_processor ==
    /\ UNCHANGED nonPipeVars
    /\ pipePc \in {"idle", "returned"}
    /\ processors < MaxProcessors
    /\ processors' = processors + 1
    /\ UNCHANGED <<transports, pipePc, procResults, results, pipeRet>>

\* add_transport.
add_transport ==
    /\ UNCHANGED nonPipeVars
    /\ pipePc \in {"idle", "returned"}
    /\ transports < MaxTransports
    /\ transports' = transports + 1
    /\ UNCHANGED <<processors, pipePc, procResults, results, pipeRet>>

\* The tail of process_batch: Err when no transport succeeded and there
\* was at least one, Ok otherwise.
process_batch_return_strict(rs) ==
    IF ~(\E i \in 1..Len(rs) : rs[i] = "Ok") THEN "Err" ELSE "Ok"

process_batch_return(rs) ==
    IF ~(\E i \in 1..Len(rs) : rs[i] = "Ok") /\ rs # <<>> THEN "Err" ELSE "Ok"

\* A call of process_batch begins.
PipeCall ==
    /\ UNCHANGED nonPipeVars
    /\ pipePc \in {"idle", "returned"}
    /\ procResults' = <<>>
    /\ results' = [t \in 1..transports |-> "pending"]
    /\ pipeRet' = "none"
    /\ pipePc' = IF processors = 0 THEN "transports" ELSE "processors"
    /\ UNCHANGED <<processors, transports>>

\* One processor stage: `batch = processor.process_batch(batch).await?`.
PipeProcessor(r) ==
    /\ UNCHANGED nonPipeVars
    /\ pipePc = "processors"
    /\ procResults' = Append(procResults, r)
    /\ IF r = "Err"
       THEN /\ pipeRet' = "Err"
            /\ pipePc' = "returned"
       ELSE /\ pipeRet' = pipeRet
            /\ pipePc' = IF Len(procResults') = processors THEN "transports"
                         ELSE "processors"
    /\ UNCHANGED <<processors, transports, results>>

\* One transport future of the fan-out finishes; they finish in any order.
PipeTransportDone(t, r) ==
    /\ UNCHANGED nonPipeVars
    /\ pipePc = "transports"
    /\ t \in 1..transports
    /\ results[t] = "pending"
    /\ results' = [results EXCEPT ![t] = r]
    /\ UNCHANGED <<processors, transports, pipePc, procResults, pipeRet>>

\* join_all has every result; process_batch returns.
PipeJoin ==
    /\ UNCHANGED nonPipeVars
    /\ pipePc = "transports"
    /\ \A t \in 1..transports : results[t] # "pending"
    /\ pipeRet' = process_batch_return(results)
    /\ pipePc' = "returned"
    /\ UNCHANGED <<processors, transports, procResults, results>>

\* Some transport's send_batch returned Ok for the batch of the call.
SomeTransportOk == \E t \in 1..Len(results) : results[t] = "Ok"

\* C6 as stated: process_batch returns Ok exactly when at least one
\* transport's send_batch returned Ok, for any number of transports.
C6_OkIffSomeTransportOk ==
    pipePc = "returned" => (pipeRet = "Ok" <=> SomeTransportOk)

\* C6 amended: process_batch returns Ok exactly when no processor stage
\* failed and either some transport's send_batch returned Ok or the
\* pipeline has no transport.
C6_OkIffSomeTransportOkOrNone ==
    pipePc = "returned" =>
        ( pipeRet = "Ok" <=>
            ( /\ \A i \in 1..Len(procResults) : procResults[i] = "Ok"
              /\ (SomeTransportOk \/ results = <<>>) ) )

\* C6 witness: a call over several transports returned Ok although one of
\* them failed.
C6_Witness ==
    /\ pipePc = "returned"
    /\ pipeRet = "Ok"
    /\ Len(results) >= 2
    /\ \E t \in 1..Len(results) : results[t] = "Err"

PipeNext ==
    \/ add_processor
    \/ add_transport
    \/ PipeCall
    \/ \E r \in {"Ok", "Err"} : PipeProcessor(r)
    \/ \E t \in 1..MaxTransports, r \in {"Ok", "Err"} : PipeTransportDone(t, r)
    \/ PipeJoin

(***************************************************************************)
(* Part III: TelemetryManager over a TelemetryRegistry.                    *)
(***************************************************************************)
\* The collectors of the model and the seconds of their Interval frequency.
CollectorIds == {"cpu", "mem", "net"}
frequency == [id \in CollectorIds |-> IF id = "net" THEN 5 ELSE 1]
Groups == {frequency[id] : id \in CollectorIds}

\* The orders in which iterating a HashMap can yield the elements of S.
Orders(S) ==
    {o \in [1..Cardinality(S) -> S] : \A i, j \in 1..Cardinality(S) : o[i] = o[j] => i = j}

\* The elements of a sequence.
Range(s) == {s[i] : i \in 1..Len(s)}

\* TelemetryManager::new over TelemetryRegistry::new.
MgrInit ==
    /\ collectors = {}
    /\ pipeline = "None"
    /\ mgrRunning = FALSE
    /\ event_chan = <<>>
    /\ mgrBuffer = <<>>
    /\ bufferLock = "free"
    /\ procPc = "none"
    /\ procEvent = 0
    /\ inflight = [f \in {"processor", "stop"} |-> <<>>]
    /\ stopPc = "idle"
    /\ collector_ids = [g \in Groups |-> <<>>]
    /\ taskPc = [g \in Groups |-> "none"]
    /\ taskIdx = [g \in Groups |-> 0]
    /\ taskEvent = [g \in Groups |-> 0]
    /\ aborted = [g \in Groups |-> FALSE]
    /\ failedInit = {}
    /\ registration = <<>>
    /\ tickError = [g \in Groups |-> FALSE]
    /\ prodPc = "idle"
    /\ prodEvent = 0
    /\ nextEvent = 1
    /\ everStarted = FALSE
    /\ accepted = {}
    /\ acceptedAtStop = {}
    /\ handed = {}
    /\ failedEvents = {}
    /\ stopReturned = FALSE
    /\ lateCollect = FALSE

\* get_available_collector_factories: the built-in collectors in the order
\* in which register_built_in_collectors registers them.
Factories == <<"cpu", "mem", "net">>

\* TelemetryRegistry::register_collector.  Set-up follows telemetry::init:
\* the collectors are registered in the order of Factories, then
\* initialised, then the manager is started.
register_collector(id) ==
    /\ UNCHANGED nonMgrVars
    /\ ~everStarted
    /\ failedInit = {}
    /\ id \notin collectors
    /\ \E k \in 1..Len(Factories) :
          /\ Factories[k] = id
          /\ \A i \in 1..(k - 1) : Factories[i] \in collectors
    /\ collectors' = collectors \cup {id}
    /\ failedInit' = failedInit \ {id}
    /\ registration' = Append(registration, id)
    /\ UNCHANGED <<tickError, pipeline, mgrRunning, event_chan, mgrBuffer, bufferLock,
                   procPc, procEvent, inflight, stopPc, collector_ids, taskPc,
                   taskIdx, taskEvent, aborted, prodPc, prodEvent, nextEvent,
                   everStarted, accepted, acceptedAtStop, handed, failedEvents,
                   stopReturned, lateCollect>>

\* TelemetryRegistry::initialize_collectors: the collectors in `failing`
\* return an error from initialize() and are removed.
initialize_collectors(failing) ==
    /\ UNCHANGED nonMgrVars
    /\ ~everStarted
    /\ failedInit = {}
    /\ collectors # {}
    /\ failing \subseteq collectors
    /\ collectors' = collectors \ failing
    /\ failedInit' = failedInit \cup failing
    /\ registration' = SelectSeq(registration, LAMBDA id : id \notin failing)
    /\ UNCHANGED <<tickError, pipeline, mgrRunning, event_chan, mgrBuffer, bufferLock,
                   procPc, procEvent, inflight, stopPc, collector_ids, taskPc,
                   taskIdx, taskEvent, aborted, prodPc, prodEvent, nextEvent,
                   everStarted, accepted, acceptedAtStop, handed, failedEvents,
                   stopReturned, lateCollect>>

\* TelemetryManager::set_pipeline.
set_pipeline ==
    /\ UNCHANGED nonMgrVars
    /\ pipeline = "None"
    /\ bufferLock = "free"
    /\ pipeline' = "Some"
    /\ UNCHANGED <<collectors, failedInit, registration, tickError, mgrRunning, event_chan, mgrBuffer, bufferLock,
                   procPc, procEvent, inflight, stopPc, collector_ids, taskPc,
                   taskIdx, taskEvent, aborted, prodPc, prodEvent, nextEvent,
                   everStarted, accepted, acceptedAtStop, handed, failedEvents,
                   stopReturned, lateCollect>>

\* The processor and the tasks work on the manager's own buffer, pipeline
\* and registry (the `.clone()` of each lock is read as a shared handle).
\* TelemetryManager::start: spawn the event processor and one task for
\* each group of Interval collectors, then set running.  The model follows
\* one start of the manager.
MgrStart ==
    /\ UNCHANGED nonMgrVars
    /\ stopPc = "idle"
    /\ ~mgrRunning
    /\ ~everStarted
    /\ everStarted' = TRUE
    /\ mgrRunning' = TRUE
    /\ procPc' = "select"
    /\ \E ids \in [Groups -> UNION {Orders(S) : S \in SUBSET CollectorIds}] :
          /\ \A g \in Groups :
                ids[g] \in Orders({id \in collectors : frequency[id] = g})
          /\ collector_ids' = ids
          /\ taskPc' = [g \in Groups |-> IF ids[g] = <<>> THEN "none" ELSE "tick"]
    /\ UNCHANGED <<collectors, failedInit, registration, tickError, pipeline, event_chan, mgrBuffer, bufferLock,
                   procEvent, inflight, stopPc, taskIdx, taskEvent, aborted,
                   prodPc, prodEvent, nextEvent, accepted, acceptedAtStop,
                   handed, failedEvents, stopReturned, lateCollect>>

\* flush_buffer_internal: the batch takes every buffered event; it goes to
\* process_batch when a pipeline is set and is discarded otherwise.
\* `who` is the caller, which holds the buffer write lock across the await.
flush_buffer_internal(who) ==
    /\ mgrBuffer' = <<>>
    /\ IF pipeline = "Some"
       THEN /\ inflight' = [inflight EXCEPT ![who] = mgrBuffer]
            /\ handed' = handed \cup Range(mgrBuffer)
            /\ bufferLock' = who
       ELSE /\ UNCHANGED <<inflight, handed, bufferLock>>

\* Event processor, `Some(event) = event_rx.recv()`.
ProcRecv ==
    /\ UNCHANGED nonMgrVars
    /\ procPc = "select"
    /\ event_chan # <<>>
    /\ procEvent' = Head(event_chan)
    /\ event_chan' = Tail(event_chan)
    /\ procPc' = "have_event"
    /\ UNCHANGED <<collectors, failedInit, registration, tickError, pipeline, mgrRunning, mgrBuffer, bufferLock,
                   inflight, stopPc, collector_ids, taskPc, taskIdx, taskEvent,
                   aborted, prodPc, prodEvent, nextEvent, everStarted,
                   accepted, acceptedAtStop, handed, failedEvents,
                   stopReturned, lateCollect>>

\* Event processor, the body of the recv branch: take the buffer lock, push
\* the event, flush when the threshold is reached.
ProcPush ==
    /\ UNCHANGED nonMgrVars
    /\ procPc = "have_event"
    /\ bufferLock = "free"
    /\ procEvent' = 0
    /\ IF Len(mgrBuffer) + 1 >= BufferThreshold
       THEN /\ mgrBuffer' = <<>>
            /\ IF pipeline = "Some"
               THEN /\ inflight' = [inflight EXCEPT !["processor"] = Append(mgrBuffer, procEvent)]
                    /\ handed' = handed \cup Range(mgrBuffer) \cup {procEvent}
                    /\ bufferLock' = "processor"
                    /\ procPc' = "flush_wait"
               ELSE /\ procPc' = "select"
                    /\ UNCHANGED <<inflight, handed, bufferLock>>
       ELSE /\ mgrBuffer' = Append(mgrBuffer, procEvent)
            /\ procPc' = "select"
            /\ UNCHANGED <<inflight, handed, bufferLock>>
    /\ UNCHANGED <<collectors, failedInit, registration, tickError, pipeline, mgrRunning, event_chan, stopPc,
                   collector_ids, taskPc, taskIdx, taskEvent, aborted, prodPc,
                   prodEvent, nextEvent, everStarted, accepted, acceptedAtStop,
                   failedEvents, stopReturned, lateCollect>>

\* Event processor, the flush_interval branch with a non-empty buffer.
ProcTick ==
    /\ UNCHANGED nonMgrVars
    /\ procPc = "select"
    /\ bufferLock = "free"
    /\ mgrBuffer # <<>>
    /\ flush_buffer_internal("processor")
    /\ procPc' = IF pipeline = "Some" THEN "flush_wait" ELSE "select"
    /\ UNCHANGED <<collectors, failedInit, registration, tickError, pipeline, mgrRunning, event_chan, procEvent,
                   stopPc, collector_ids, taskPc, taskIdx, taskEvent, aborted,
                   prodPc, prodEvent, nextEvent, everStarted, accepted,
                   acceptedAtStop, failedEvents, stopReturned, lateCollect>>

\* Event processor: process_batch returns; an error is logged and the
\* batch is gone either way.
ProcFlushDone(r) ==
    /\ UNCHANGED nonMgrVars
    /\ procPc = "flush_wait"
    /\ failedEvents' = IF r = "Err" THEN failedEvents \cup Range(inflight["processor"])
                       ELSE failedEvents
    /\ inflight' = [inflight EXCEPT !["processor"] = <<>>]
    /\ bufferLock' = "free"
    /\ procPc' = "select"
    /\ UNCHANGED <<collectors, failedInit, registration, tickError, pipeline, mgrRunning, event_chan, mgrBuffer,
                   procEvent, stopPc, collector_ids, taskPc, taskIdx,
                   taskEvent, aborted, prodPc, prodEvent, nextEvent,
                   everStarted, accepted, acceptedAtStop, handed,
                   stopReturned, lateCollect>>

\* TelemetryManager::add_event up to the send: running is read (the call
\* waits while stop() holds the write lock) and must be true.
AddEvent ==
    /\ UNCHANGED nonMgrVars
    /\ prodPc = "idle"
    /\ stopPc = "idle"
    /\ mgrRunning
    /\ nextEvent <= MaxEvents
    /\ prodEvent' = nextEvent
    /\ nextEvent' = nextEvent + 1
    /\ prodPc' = "send"
    /\ UNCHANGED <<collectors, failedInit, registration, tickError, pipeline, mgrRunning, event_chan, mgrBuffer,
                   bufferLock, procPc, procEvent, inflight, stopPc,
                   collector_ids, taskPc, taskIdx, taskEvent, aborted,
                   everStarted, accepted, acceptedAtStop, handed,
                   failedEvents, stopReturned, lateCollect>>

\* `event_tx.send(event).await` of add_event: it completes once the channel
\* has room and waits until then.
ProdSend ==
    /\ UNCHANGED nonMgrVars
    /\ prodPc = "send"
    /\ Len(event_chan) < ChannelCapacity
    /\ event_chan' = Append(event_chan, prodEvent)
    /\ accepted' = accepted \cup {prodEvent}
    /\ prodEvent' = 0
    /\ prodPc' = "idle"
    /\ UNCHANGED <<collectors, failedInit, registration, tickError, pipeline, mgrRunning, mgrBuffer, bufferLock,
                   procPc, procEvent, inflight, stopPc, collector_ids, taskPc,
                   taskIdx, taskEvent, aborted, nextEvent, everStarted,
                   acceptedAtStop, handed, failedEvents, stopReturned,
                   lateCollect>>

\* A loop that leaves the tick at the first collector it is done with.
AfterCollector_LeaveTick(g) ==
    IF aborted[g] THEN "cancelled" ELSE "tick"

\* Where the task of group g goes after the collector at taskIdx[g]: the
\* next collector of the tick, or back to ticker.tick(), where a task whose
\* handle was aborted is dropped.
AfterCollector(g) ==
    IF taskIdx[g] < Len(collector_ids[g]) THEN "collect"
    ELSE IF aborted[g] THEN "cancelled" ELSE "tick"

\* Interval task: ticker.tick() returns.
TaskTick(g) ==
    /\ UNCHANGED nonMgrVars
    /\ taskPc[g] = "tick"
    /\ taskPc' = [taskPc EXCEPT ![g] = "collect"]
    /\ taskIdx' = [taskIdx EXCEPT ![g] = 1]
    /\ tickError' = [tickError EXCEPT ![g] = FALSE]
    /\ UNCHANGED <<collectors, failedInit, registration, pipeline, mgrRunning, event_chan, mgrBuffer,
                   bufferLock, procPc, procEvent, inflight, stopPc,
                   collector_ids, taskEvent, aborted, prodPc, prodEvent,
                   nextEvent, everStarted, accepted, acceptedAtStop, handed,
                   failedEvents, stopReturned, lateCollect>>

\* Interval task: registry.collect_from(id) for the collector at taskIdx.
\* An unregistered id is an error without a collect call; otherwise
\* collect() runs and returns metrics, an empty map or an error.
TaskCollect(g, outcome) ==
    /\ UNCHANGED nonMgrVars
    /\ taskPc[g] = "collect"
    /\ LET id == collector_ids[g][taskIdx[g]]
           found == id \in collectors
           sends == found /\ outcome = "metrics" /\ nextEvent <= MaxEvents
       IN  /\ lateCollect' = (lateCollect \/ (found /\ stopReturned))
           /\ tickError' = [tickError EXCEPT ![g] =
                              /\ @ \/ ~found \/ outcome = "error"
                              /\ sends \/ taskIdx[g] < Len(collector_ids[g])]
           /\ IF sends
              THEN /\ taskEvent' = [taskEvent EXCEPT ![g] = nextEvent]
                   /\ nextEvent' = nextEvent + 1
                   /\ taskPc' = [taskPc EXCEPT ![g] = "send"]
                   /\ UNCHANGED taskIdx
              ELSE /\ taskPc' = [taskPc EXCEPT ![g] = AfterCollector(g)]
                   /\ taskIdx' = [taskIdx EXCEPT ![g] =
                                     IF taskIdx[g] < Len(collector_ids[g])
                                     THEN taskIdx[g] + 1 ELSE 0]
                   /\ UNCHANGED <<taskEvent, nextEvent>>
    /\ UNCHANGED <<collectors, failedInit, registration, pipeline, mgrRunning, event_chan, mgrBuffer,
                   bufferLock, procPc, procEvent, inflight, stopPc,
                   collector_ids, aborted, prodPc, prodEvent, everStarted,
                   accepted, acceptedAtStop, handed, failedEvents,
                   stopReturned>>

\* Interval task: `event_tx.send(event).await`; it completes once the
\* channel has room and waits until then.
TaskSend(g) ==
    /\ UNCHANGED nonMgrVars
    /\ tickError' = [tickError EXCEPT ![g] = @ /\ taskIdx[g] < Len(collector_ids[g])]
    /\ taskPc[g] = "send"
    /\ Len(event_chan) < ChannelCapacity
    /\ event_chan' = Append(event_chan, taskEvent[g])
    /\ accepted' = accepted \cup {taskEvent[g]}
    /\ taskEvent' = [taskEvent EXCEPT ![g] = 0]
    /\ taskPc' = [taskPc EXCEPT ![g] = AfterCollector(g)]
    /\ taskIdx' = [taskIdx EXCEPT ![g] =
                      IF taskIdx[g] < Len(collector_ids[g]) THEN taskIdx[g] + 1 ELSE 0]
    /\ UNCHANGED <<collectors, failedInit, registration, pipeline, mgrRunning, mgrBuffer, bufferLock,
                   procPc, procEvent, inflight, stopPc, collector_ids, aborted,
                   prodPc, prodEvent, nextEvent, everStarted, acceptedAtStop,
                   handed, failedEvents, stopReturned, lateCollect>>

\* Interval task whose handle was aborted: it is dropped at the await
\* where it next yields to the runtime.
TaskCancel(g) ==
    /\ UNCHANGED nonMgrVars
    /\ tickError' = [tickError EXCEPT ![g] = FALSE]
    /\ aborted[g]
    /\ taskPc[g] \in {"collect", "send"}
    /\ taskPc' = [taskPc EXCEPT ![g] = "cancelled"]
    /\ taskEvent' = [taskEvent EXCEPT ![g] = 0]
    /\ taskIdx' = [taskIdx EXCEPT ![g] = 0]
    /\ UNCHANGED <<collectors, failedInit, registration, pipeline, mgrRunning, event_chan, mgrBuffer,
                   bufferLock, procPc, procEvent, inflight, stopPc,
                   collector_ids, aborted, prodPc, prodEvent, nextEvent,
                   everStarted, accepted, acceptedAtStop, handed,
                   failedEvents, stopReturned, lateCollect>>

\* A task that is suspended: waiting for its timer, or waiting for room in
\* the channel.
Suspended(g) ==
    \/ taskPc[g] = "tick"
    \/ taskPc[g] = "send" /\ Len(event_chan) >= ChannelCapacity

\* TelemetryManager::stop up to flush_buffer: take the running write lock,
\* return if not running, abort every interval handle.  abort() does not
\* wait: a suspended task is dropped without running again, a task that is
\* being polled goes on until it next yields.
StopBegin ==
    /\ UNCHANGED nonMgrVars
    /\ tickError' = [g \in Groups |-> tickError[g] /\ ~Suspended(g)]
    /\ stopPc = "idle"
    /\ mgrRunning
    /\ stopPc' = "flush"
    /\ stopReturned' = FALSE
    /\ acceptedAtStop' = accepted
    /\ aborted' = [g \in Groups |-> aborted[g] \/ taskPc[g] \in {"collect", "send"}]
    /\ taskPc' = [g \in Groups |-> IF Suspended(g) THEN "cancelled" ELSE taskPc[g]]
    /\ taskEvent' = [g \in Groups |-> IF Suspended(g) THEN 0 ELSE taskEvent[g]]
    /\ taskIdx' = [g \in Groups |-> IF Suspended(g) THEN 0 ELSE taskIdx[g]]
    /\ UNCHANGED <<collectors, failedInit, registration, pipeline, mgrRunning, event_chan, mgrBuffer,
                   bufferLock, procPc, procEvent, inflight, collector_ids,
                   prodPc, prodEvent, nextEvent, everStarted, accepted, handed,
                   failedEvents, lateCollect>>

\* stop, flush_buffer: take the buffer write lock and flush; with nothing
\* to wait for, running is cleared and stop returns.
StopFlush ==
    /\ UNCHANGED nonMgrVars
    /\ stopPc = "flush"
    /\ bufferLock = "free"
    /\ IF mgrBuffer # <<>> /\ pipeline = "Some"
       THEN /\ flush_buffer_internal("stop")
            /\ stopPc' = "flush_wait"
            /\ UNCHANGED <<mgrRunning, stopReturned>>
       ELSE /\ mgrBuffer' = <<>>
            /\ mgrRunning' = FALSE
            /\ stopReturned' = TRUE
            /\ stopPc' = "idle"
            /\ UNCHANGED <<inflight, handed, bufferLock>>
    /\ UNCHANGED <<collectors, failedInit, registration, tickError, pipeline, event_chan, procPc, procEvent,
                   collector_ids, taskPc, taskIdx, taskEvent, aborted, prodPc,
                   prodEvent, nextEvent, everStarted, accepted, acceptedAtStop,
                   failedEvents, lateCollect>>

\* stop, process_batch returns: `?` returns the error with running still
\* set, otherwise running is cleared.
StopFlushDone(r) ==
    /\ UNCHANGED nonMgrVars
    /\ stopPc = "flush_wait"
    /\ failedEvents' = IF r = "Err" THEN failedEvents \cup Range(inflight["stop"])
                       ELSE failedEvents
    /\ inflight' = [inflight EXCEPT !["stop"] = <<>>]
    /\ bufferLock' = "free"
    /\ mgrRunning' = (r = "Err")
    /\ stopReturned' = TRUE
    /\ stopPc' = "idle"
    /\ UNCHANGED <<collectors, failedInit, registration, tickError, pipeline, event_chan, mgrBuffer, procPc,
                   procEvent, collector_ids, taskPc, taskIdx, taskEvent,
                   aborted, prodPc, prodEvent, nextEvent, everStarted,
                   accepted, acceptedAtStop, handed, lateCollect>>

\* The events the manager still holds: queued in the channel, taken by the
\* processor, buffered, or inside a process_batch call that has not returned.
Held ==
    Range(event_chan) \cup Range(mgrBuffer) \cup ({procEvent} \ {0})
        \cup Range(inflight["processor"]) \cup Range(inflight["stop"])

\* C5: the events of a batch for which process_batch returned an error
\* (every transport failed after its retries) are kept for a later replay:
\* they are still held, none is discarded.
C5_FailedBatchIsKept == failedEvents \subseteq Held

\* C7: after stop() has returned, no interval-group task begins another
\* collect call on a collector.
C7_NoCollectAfterStop == ~lateCollect

\* C8: when stop() returns Ok with a pipeline set, every event accepted
\* before stop() was called has been handed to the pipeline in a batch.
C8_StopDrainsAccepted ==
    [][(stopPc # "idle" /\ stopPc' = "idle" /\ ~mgrRunning' /\ pipeline' = "Some")
         => acceptedAtStop' \subseteq handed']_vars

\* C9: a submitter that has reached the send on the event channel is never
\* left waiting: with the channel full the send still completes (the event
\* being dropped), so the step of the send is enabled.
C9_FullChannelDoesNotBlock ==
    /\ prodPc = "send" => ENABLED ProdSend
    /\ \A g \in Groups : (taskPc[g] = "send" /\ ~aborted[g]) => ENABLED TaskSend(g)

\* C11: within one tick of an interval group, when collect_from returns an
\* error for a collector that is not the last of the group, the task goes
\* on to the next collector of the group in the same tick.
C11_ErrorDoesNotHaltGroup ==
    [][\A g \in Groups :
          (~tickError[g] /\ tickError'[g] /\ taskIdx[g] < Len(collector_ids[g]))
             => /\ taskPc'[g] = "collect"
                /\ taskIdx'[g] = taskIdx[g] + 1]_vars

\* C11: a collector failed in this tick and the task is at the next
\* collector of the group.
C11_Witness ==
    \E g \in Groups : tickError[g] /\ taskPc[g] = "collect" /\ taskIdx[g] = 2

\* id a was registered before id b.
RegisteredBefore(a, b) ==
    \E i, j \in 1..Len(registration) :
        i < j /\ registration[i] = a /\ registration[j] = b

\* C12: the ids of every interval group are in the order in which their
\* collectors were registered, which is the order a tick invokes them in.
C12_GroupInRegistrationOrder ==
    \A g \in Groups : \A i, j \in 1..Len(collector_ids[g]) :
        i < j => RegisteredBefore(collector_ids[g][i], collector_ids[g][j])

MgrNext ==
    \/ \E id \in CollectorIds : register_collector(id)
    \/ \E failing \in SUBSET CollectorIds : initialize_collectors(failing)
    \/ set_pipeline
    \/ MgrStart
    \/ ProcRecv
    \/ ProcPush
    \/ ProcTick
    \/ \E r \in {"Ok", "Err"} : ProcFlushDone(r)
    \/ AddEvent
    \/ ProdSend
    \/ \E g \in Groups : TaskTick(g)
    \/ \E g \in Groups, outcome \in {"metrics", "empty", "error"} : TaskCollect(g, outcome)
    \/ \E g \in Groups : TaskSend(g)
    \/ \E g \in Groups : TaskCancel(g)
    \/ StopBegin
    \/ StopFlush
    \/ \E r \in {"Ok", "Err"} : StopFlushDone(r)

(***************************************************************************)
(* Part IV: CollectorRegistry of the collectors crate.                     *)
(***************************************************************************)
\* The collector ids of the registry's model.
RegIds == {"cpu", "mem"}

\* CollectorConfig, as far as the registry reads it.
Configs == [frequency : {"PerInvocation", "OnDemand", "Interval"}, enabled : BOOLEAN]

\* The entry of an id that has no collector.
NoCollector == [frequency |-> "None", enabled |-> FALSE]

\* The ids that have a collector.
Registered == {id \in RegIds : regCollectors[id] # NoCollector}

\* CollectorRegistry::new.
RegInit ==
    /\ regCollectors = [id \in RegIds |-> NoCollector]
    /\ on_demand_channels = {}
    /\ onDemandPending = [id \in RegIds |-> 0]
    /\ initialized = FALSE
    /\ running = FALSE
    /\ startThread = "none"
    /\ regFailedInit = {}
    /\ regInvoked = {}

\* CollectorRegistry::register_factory with a factory whose create
\* succeeds: the new collector replaces any collector of the same id.
\* collectors.write() waits while a deadlocked caller holds the read lock.
register_factory(id, config) ==
    /\ UNCHANGED nonRegVars
    /\ startThread # "deadlocked"
    /\ regCollectors' = [regCollectors EXCEPT ![id] = config]
    /\ regFailedInit' = regFailedInit \ {id}
    /\ UNCHANGED <<on_demand_channels, onDemandPending, initialized, running,
                   startThread, regInvoked>>

\* CollectorRegistry::initialize; the collectors in `failing` return an
\* error from initialize(): the error is logged and the collector stays.
\* An OnDemand collector gets its channel and its task either way.
initialize(failing) ==
    /\ UNCHANGED nonRegVars
    /\ ~initialized
    /\ startThread # "deadlocked"
    /\ failing \subseteq Registered
    /\ on_demand_channels' = on_demand_channels \cup
           {id \in Registered : regCollectors[id].frequency = "OnDemand"}
    /\ initialized' = TRUE
    /\ regFailedInit' = failing
    /\ regInvoked' = {}
    /\ UNCHANGED <<regCollectors, onDemandPending, running, startThread>>

\* CollectorRegistry::start_scheduled_collection.  With no Interval
\* collector no task is spawned and running is set.  Otherwise the first
\* `self.clone()` reads `running` while this caller holds its write lock:
\* std's RwLock either deadlocks or panics, so the caller never sets
\* running; a deadlocked caller keeps the write lock on running and the
\* read lock on collectors, a panic poisons running.
start_scheduled_collection(outcome) ==
    /\ UNCHANGED nonRegVars
    /\ startThread = "none"
    /\ ~running
    /\ IF \E id \in Registered : regCollectors[id].frequency = "Interval"
       THEN /\ startThread' = outcome
            /\ UNCHANGED running
       ELSE /\ running' = TRUE
            /\ UNCHANGED startThread
    /\ UNCHANGED <<regCollectors, on_demand_channels, onDemandPending,
                   initialized, regFailedInit, regInvoked>>

\* CollectorRegistry::collect_from: an unknown id is an error, a disabled
\* collector is skipped, otherwise collect() is invoked.
collect_from(id) ==
    /\ UNCHANGED nonRegVars
    /\ regInvoked' = IF id \in Registered /\ regCollectors[id].enabled
                     THEN regInvoked \cup {id} ELSE regInvoked
    /\ UNCHANGED <<regCollectors, on_demand_channels, onDemandPending,
                   initialized, running, startThread, regFailedInit>>

\* CollectorRegistry::collect_all: collect() on every enabled collector.
collect_all ==
    /\ UNCHANGED nonRegVars
    /\ regInvoked' = regInvoked \cup {id \in Registered : regCollectors[id].enabled}
    /\ UNCHANGED <<regCollectors, on_demand_channels, onDemandPending,
                   initialized, running, startThread, regFailedInit>>

\* CollectorRegistry::trigger_on_demand for an id that has a channel:
\* `sender.send(()).await` completes once the channel has room.
trigger_on_demand(id) ==
    /\ UNCHANGED nonRegVars
    /\ id \in on_demand_channels
    /\ onDemandPending[id] < OnDemandCapacity
    /\ onDemandPending' = [onDemandPending EXCEPT ![id] = @ + 1]
    /\ UNCHANGED <<regCollectors, on_demand_channels, initialized, running,
                   startThread, regFailedInit, regInvoked>>

\* The on-demand task spawned by initialize: receive one trigger and call
\* collect() on its collector.
OnDemandTask(id) ==
    /\ UNCHANGED nonRegVars
    /\ onDemandPending[id] > 0
    /\ onDemandPending' = [onDemandPending EXCEPT ![id] = @ - 1]
    /\ regInvoked' = regInvoked \cup {id}
    /\ UNCHANGED <<regCollectors, on_demand_channels, initialized, running,
                   startThread, regFailedInit>>

\* CollectorRegistry::shutdown: clear both maps and initialized; running
\* is cleared unless its lock is poisoned, where the unwrap panics.
shutdown ==
    /\ UNCHANGED nonRegVars
    /\ startThread # "deadlocked"
    /\ regCollectors' = [id \in RegIds |-> NoCollector]
    /\ on_demand_channels' = {}
    /\ initialized' = FALSE
    /\ running' = IF startThread = "panicked" THEN running ELSE FALSE
    /\ regFailedInit' = {}
    /\ UNCHANGED <<onDemandPending, startThread, regInvoked>>

\* C10: once initialize has completed, a collector whose initialize()
\* returned an error is no longer registered and its collect() is not
\* invoked by collect_from, collect-all or a scheduled or on-demand task.
C10_FailedInitIsDeregistered ==
    initialized => \A id \in regFailedInit :
                       /\ id \notin Registered
                       /\ id \notin regInvoked

\* C33: a call of start_scheduled_collection returns: its caller is never
\* left waiting for a lock it holds itself, nor panicking on it, which is
\* what a call made with an Interval collector registered would have to
\* avoid to return with running set.
C33_StartReturnsRunning ==
    startThread \notin {"deadlocked", "panicked"}

RegNext ==
    \/ \E id \in RegIds, config \in Configs : register_factory(id, config)
    \/ \E failing \in SUBSET RegIds : initialize(failing)
    \/ \E outcome \in {"deadlocked", "panicked"} : start_scheduled_collection(outcome)
    \/ \E id \in RegIds : collect_from(id)
    \/ collect_all
    \/ \E id \in RegIds : trigger_on_demand(id)
    \/ \E id \in RegIds : OnDemandTask(id)
    \/ shutdown

(***************************************************************************)
(* Part V: the service closure of the Lambda extension, which handles the  *)
(* host events one at a time and calls into the shipper of Part I as the   *)
(* caller "handler"; the auto-flush task is the caller "auto".             *)
(***************************************************************************)
\* NextEvent of lambda_extension.
HostEventKinds == {"Invoke", "Shutdown"}

\* main: LambdaStateManager::new behind the mutex, no event received.
ExtInit ==
    /\ stateMutex = "free"
    /\ invoke_count = 0
    /\ hostPc = "next"
    /\ hostEvent = "none"
    /\ hostEvents = 0
    /\ shutdownReceived = FALSE
    /\ countAtEvent = 0
    /\ eventsHandled = 0
    /\ perInvocationCollects = 0

\* The extension receives the next host event and calls the closure; no
\* event follows a Shutdown.
HostEvent(e) ==
    /\ UNCHANGED nonExtVars
    /\ hostPc = "next"
    /\ hostEvents < MaxHostEvents
    /\ ~shutdownReceived
    /\ hostEvent' = e
    /\ hostEvents' = hostEvents + 1
    /\ shutdownReceived' = (e = "Shutdown")
    /\ countAtEvent' = invoke_count
    /\ hostPc' = "state_lock"
    /\ UNCHANGED <<stateMutex, invoke_count, eventsHandled, perInvocationCollects>>

\* LambdaStateManager::record_invoke: bump the count; the snapshot calls
\* is_cold_start(), which clears the flag.
record_invoke ==
    /\ invoke_count' = invoke_count + 1
    /\ COLD_START' = FALSE

\* The closure takes the state-manager mutex, which it holds until it
\* returns, and calls state.process_event: an Invoke is recorded.
HandlerStateProcess ==
    /\ UNCHANGED nonExtShipVars
    /\ hostPc = "state_lock"
    /\ stateMutex = "free"
    /\ stateMutex' = "handler"
    /\ IF hostEvent = "Invoke" THEN record_invoke
       ELSE UNCHANGED <<invoke_count, COLD_START>>
    /\ hostPc' = "telemetry"
    /\ UNCHANGED <<buffer, poolFree, scratchFile, pc, position, file_size,
                   batch, binary_data, nextId, sink, produced, send_result,
                   sendLog, replayRemoved, replayAborted, replaySent,
                   undelivered>>
    /\ UNCHANGED <<hostEvent, hostEvents, shutdownReceived, countAtEvent,
                   eventsHandled, perInvocationCollects>>

\* telemetry.process_event for an Invoke, up to the end of ship_metrics:
\* an entry is taken from the pool and staged, and a full batch starts a
\* flush; with the pool exhausted ship_metrics returns an error, which is
\* logged.
HandlerTelemetryInvoke ==
    /\ UNCHANGED nonExtShipVars
    /\ hostPc = "telemetry"
    /\ hostEvent = "Invoke"
    /\ pc["handler"] = "idle"
    /\ IF poolFree > 0 /\ nextId <= MaxMetrics
       THEN /\ poolFree' = poolFree - 1
            /\ buffer' = Append(buffer, nextId)
            /\ nextId' = nextId + 1
            /\ pc' = [pc EXCEPT !["handler"] =
                         IF Len(buffer') >= BatchSize THEN "flush" ELSE "idle"]
       ELSE UNCHANGED <<poolFree, buffer, nextId, pc>>
    /\ hostPc' = "shipping"
    /\ UNCHANGED <<COLD_START, scratchFile, position, file_size, batch,
                   binary_data, sink, produced, send_result, sendLog,
                   replayRemoved, replayAborted, replaySent, undelivered>>
    /\ UNCHANGED <<stateMutex, invoke_count, hostEvent, hostEvents,
                   shutdownReceived, countAtEvent, eventsHandled,
                   perInvocationCollects>>

\* telemetry.process_event for an Invoke, after ship_metrics has returned:
\* the handler asks for the state-manager mutex.
HandlerShipped ==
    /\ UNCHANGED nonExtVars
    /\ hostPc = "shipping"
    /\ pc["handler"] = "idle"
    /\ hostPc' = "record_lock"
    /\ UNCHANGED <<stateMutex, invoke_count, hostEvent, hostEvents,
                   shutdownReceived, countAtEvent, eventsHandled,
                   perInvocationCollects>>

\* telemetry.process_event for an Invoke, last part: with the
\* state-manager mutex acquired, record_invoke runs once more.  The mutex
\* is tokio's, which the task that holds it cannot take again.
TelemetryRecordInvoke ==
    /\ UNCHANGED nonExtShipVars
    /\ hostPc = "record_lock"
    /\ stateMutex = "free"
    /\ record_invoke
    /\ hostPc' = "return"
    /\ UNCHANGED <<buffer, poolFree, scratchFile, pc, position, file_size,
                   batch, binary_data, nextId, sink, produced, send_result,
                   sendLog, replayRemoved, replayAborted, replaySent,
                   undelivered>>
    /\ UNCHANGED <<stateMutex, hostEvent, hostEvents, shutdownReceived,
                   countAtEvent, eventsHandled, perInvocationCollects>>

\* A call of shipper.flush by the handler: telemetry.process_event for a
\* Shutdown (from "telemetry"), then force_flush of the closure (from
\* "shutdown_flush", once the first flush has returned).
HandlerFlush ==
    /\ UNCHANGED nonExtShipVars
    /\ hostEvent = "Shutdown"
    /\ hostPc \in {"telemetry", "shutdown_flush"}
    /\ pc["handler"] = "idle"
    /\ pc' = [pc EXCEPT !["handler"] = "flush"]
    /\ hostPc' = IF hostPc = "telemetry" THEN "shutdown_flush" ELSE "force_flush"
    /\ UNCHANGED <<COLD_START, buffer, poolFree, scratchFile, position,
                   file_size, batch, binary_data, nextId, sink, produced,
                   send_result, sendLog, replayRemoved, replayAborted,
                   replaySent, undelivered>>
    /\ UNCHANGED <<stateMutex, invoke_count, hostEvent, hostEvents,
                   shutdownReceived, countAtEvent, eventsHandled,
                   perInvocationCollects>>

\* The closure returns: the guard of the state-manager mutex is dropped.
HandlerReturn ==
    /\ UNCHANGED nonExtVars
    /\ \/ hostPc = "return"
       \/ hostPc = "force_flush" /\ pc["handler"] = "idle"
    /\ stateMutex' = "free"
    /\ eventsHandled' = eventsHandled + 1
    /\ hostPc' = "next"
    /\ UNCHANGED <<invoke_count, hostEvent, hostEvents, shutdownReceived,
                   countAtEvent, perInvocationCollects>>

\* The steps of the closure and of the shipper calls it has made.
HandlerStep ==
    \/ HandlerStateProcess
    \/ HandlerTelemetryInvoke
    \/ HandlerShipped
    \/ TelemetryRecordInvoke
    \/ HandlerFlush
    \/ HandlerReturn
    \/ FlushBegin("handler")
    \/ ReplayNext("handler")
    \/ \E outcome \in HttpOutcomes : ReplaySend("handler", outcome)
    \/ Drain("handler")
    \/ \E result \in ship_http_with_retry : ShipComplete("handler", result)

\* C13: a PerInvocation collector has had collect invoked once for each
\* host event the extension has handled.
C13_CollectOncePerHostEvent == perInvocationCollects = eventsHandled

\* C14: the handling of an Invoke completes, and when it has completed
\* the invocation count is one more than when the event was received.
C14_InvokeCountsOnce ==
    (hostEvent = "Invoke" /\ hostPc = "state_lock")
        ~> (hostPc = "next" /\ invoke_count = countAtEvent + 1)

\* C32: while an Invoke is handled, the handler never waits for the
\* state-manager mutex while it is itself the holder of that mutex.
C32_HandlerNeverWaitsForOwnMutex ==
    ~(hostEvent = "Invoke" /\ hostPc = "record_lock"
        /\ stateMutex = "handler")

\* The steps of the extension: the closure, the flushes it has started and
\* the auto-flush task.  TelemetryRecordInvoke is not among them: it waits
\* for a mutex that its own task holds.
ExtNext ==
    \/ \E e \in HostEventKinds : HostEvent(e)
    \/ HandlerStateProcess
    \/ HandlerTelemetryInvoke
    \/ HandlerShipped
    \/ HandlerFlush
    \/ HandlerReturn
    \/ FlushCall("auto")
    \/ \E c \in Callers : FlushBegin(c)
    \/ \E c \in Callers : ReplayNext(c)
    \/ \E c \in Callers, outcome \in HttpOutcomes : ReplaySend(c, outcome)
    \/ \E c \in Callers : Drain(c)
    \/ \E c \in Callers, result \in ship_http_with_retry : ShipComplete(c, result)

(***************************************************************************)
(* Part VI: the cold-start flags of agent_core: state::cold_start and      *)
(* startup (with asm_opt).                                                 *)
(***************************************************************************)
\* Process start: every static flag holds true.
ColdInit ==
    /\ IS_COLD_START = TRUE
    /\ ASM_COLD_START = TRUE
    /\ startupCalls = 0
    /\ lastStartup = "none"
    /\ coldCalls = 0
    /\ coldTrue = 0
    /\ coldResets = 0

\* The shipper of Part I stays as it is; of its variables only the flag of
\* state::cold_start changes in this part.
ShipperAtRest ==
    UNCHANGED <<buffer, poolFree, scratchFile, pc, position, file_size,
                batch, binary_data, nextId, sink, produced, send_result,
                sendLog, replayRemoved, replayAborted, replaySent,
                undelivered>>

\* startup::is_cold_start, which is asm_opt::is_cold_start_asm: an atomic
\* exchange of false into the static of that function.
is_cold_start_asm ==
    /\ UNCHANGED nonColdVars
    /\ ShipperAtRest
    /\ coldCalls < MaxColdCalls
    /\ ASM_COLD_START' = FALSE
    /\ lastStartup' = ASM_COLD_START
    /\ startupCalls' = startupCalls + 1
    /\ coldCalls' = coldCalls + 1
    /\ coldTrue' = coldTrue + (IF ASM_COLD_START THEN 1 ELSE 0)
    /\ UNCHANGED <<COLD_START, IS_COLD_START, coldResets>>

\* startup::reset_cold_start: stores true into IS_COLD_START.
startup_reset_cold_start ==
    /\ UNCHANGED nonColdVars
    /\ ShipperAtRest
    /\ coldResets < MaxColdResets
    /\ IS_COLD_START' = TRUE
    /\ startupCalls' = 0
    /\ lastStartup' = "none"
    /\ coldCalls' = 0
    /\ coldTrue' = 0
    /\ coldResets' = coldResets + 1
    /\ UNCHANGED <<COLD_START, ASM_COLD_START>>

\* state::cold_start::is_cold_start (also through cold_start_duration):
\* COLD_START.swap(false).
state_is_cold_start ==
    /\ UNCHANGED nonColdVars
    /\ ShipperAtRest
    /\ coldCalls < MaxColdCalls
    /\ COLD_START' = FALSE
    /\ coldCalls' = coldCalls + 1
    /\ coldTrue' = coldTrue + (IF COLD_START THEN 1 ELSE 0)
    /\ UNCHANGED <<IS_COLD_START, ASM_COLD_START, startupCalls, lastStartup,
                   coldResets>>

\* state::cold_start::reset_cold_start: stores true into COLD_START.
state_reset_cold_start ==
    /\ UNCHANGED nonColdVars
    /\ ShipperAtRest
    /\ coldResets < MaxColdResets
    /\ COLD_START' = TRUE
    /\ coldCalls' = 0
    /\ coldTrue' = 0
    /\ coldResets' = coldResets + 1
    /\ UNCHANGED <<IS_COLD_START, ASM_COLD_START, startupCalls, lastStartup>>

\* C15: of the startup::is_cold_start calls made since process start or
\* since the last startup::reset_cold_start, the first returned true and
\* every later one returned false.
C15_FirstCallAfterResetIsCold ==
    startupCalls >= 1 => (lastStartup = (startupCalls = 1))

\* C16: of the cold-start checks made from any module since process start
\* or the last reset, exactly one returned true.
C16_OneSharedFlag == coldCalls >= 1 => coldTrue = 1

ColdNext ==
    \/ is_cold_start_asm
    \/ startup_reset_cold_start
    \/ state_is_cold_start
    \/ state_reset_cold_start

(***************************************************************************)
(* Part VII: FreezeThawDetector (platforms/lambda/freeze_thaw.rs and the   *)
(* same code in startup/mod.rs).  The wall clock does not go backwards.    *)
(***************************************************************************)
\* FreezeThawDetector::new(freeze_threshold_ms): last_activity is now.
FreezeNew(threshold) ==
    /\ wallClock = 0
    /\ last_activity = 0
    /\ freeze_threshold_ms = threshold
    /\ frozenCalls = <<>>
    /\ quiet = FALSE

\* The detector while the other parts run.
FreezeInit == FreezeNew(0)

\* Time passes.
ClockTick ==
    /\ UNCHANGED nonFreezeVars
    /\ wallClock < MaxClock
    /\ wallClock' = wallClock + 1
    /\ quiet' = FALSE
    /\ UNCHANGED <<last_activity, freeze_threshold_ms, frozenCalls>>

\* record_activity: last_activity.store(now).
record_activity ==
    /\ UNCHANGED nonFreezeVars
    /\ last_activity' = wallClock
    /\ quiet' = FALSE
    /\ UNCHANGED <<wallClock, freeze_threshold_ms, frozenCalls>>

\* The test of was_frozen: elapsed > self.freeze_threshold_ms.
LikelyFrozen_AtThreshold(elapsed) == elapsed >= freeze_threshold_ms
LikelyFrozen(elapsed) == elapsed > freeze_threshold_ms

\* The two latest calls.
Latest(calls) ==
    IF Len(calls) <= 2 THEN calls ELSE SubSeq(calls, Len(calls) - 1, Len(calls))

\* was_frozen: d is the time that passes between its reading of the clock
\* and the reading of record_activity, which it calls when it returns true.
was_frozen(d) ==
    /\ UNCHANGED nonFreezeVars
    /\ wallClock + d <= MaxClock
    /\ LET last == last_activity
           now == wallClock
           elapsed == now - last
           result == LikelyFrozen(elapsed)
       IN  /\ IF result
              THEN /\ wallClock' = wallClock + d
                   /\ last_activity' = wallClock + d
              ELSE /\ d = 0
                   /\ UNCHANGED <<wallClock, last_activity>>
           /\ frozenCalls' = Latest(Append(frozenCalls,
                  [now |-> now, last |-> last, result |-> result,
                   immediate |-> quiet]))
    /\ quiet' = TRUE
    /\ UNCHANGED freeze_threshold_ms

\* C17: a was_frozen call made when the wall clock is more than the
\* threshold past the recorded activity returns true, and a was_frozen call
\* that follows it immediately returns false.
C17_FrozenOnceThenNot ==
    \A i \in 1..Len(frozenCalls) :
        frozenCalls[i].now - frozenCalls[i].last > freeze_threshold_ms
        => /\ frozenCalls[i].result
           /\ (i < Len(frozenCalls) /\ frozenCalls[i + 1].immediate)
              => ~frozenCalls[i + 1].result

C17_Witness ==
    /\ Len(frozenCalls) = 2
    /\ frozenCalls[1].now - frozenCalls[1].last > freeze_threshold_ms
    /\ frozenCalls[1].result
    /\ frozenCalls[2].immediate
    /\ ~frozenCalls[2].result

FreezeNext ==
    \/ ClockTick
    \/ record_activity
    \/ \E d \in 0..1 : was_frozen(d)

(***************************************************************************)
(* Part VIII: StatePersistence (core/lib/state/persistence.rs): a primary  *)
(* state file and a backup file.                                           *)
(***************************************************************************)
Absent == <<"absent">>
Garbage == <<"garbage">>
\* T::default() is state 0.
DefaultState == 0
StateValues == 0..MaxStateValue

\* serde_json::to_string_pretty and serde_json::from_str followed by
\* validate(), whose default accepts every state.
to_string_pretty(state) == <<"json", state>>
Deserializes(contents) == Len(contents) = 2 /\ contents[1] = "json"
from_str(contents) == contents[2]

PersistInit ==
    /\ stateFile = Absent
    /\ backupFile = Absent
    /\ saved = <<>>
    /\ corruptedAfterSave = FALSE
    /\ lastLoad = <<>>
    /\ loadRecovered = FALSE

\* load_from_file succeeds on a file that exists and deserializes.
Loads(file) == file # Absent /\ Deserializes(file)

\* The backup file after save: a copy of the primary file as save finds it,
\* if there is one.
BackupBeforeSaving(primary, old, state) ==
    IF primary # Absent THEN primary ELSE old

\* save(state), all of its file operations succeeding.
save(state) ==
    /\ UNCHANGED nonPersistVars
    /\ Len(saved) < MaxSaves
    /\ backupFile' = BackupBeforeSaving(stateFile, backupFile, state)
    /\ stateFile' = to_string_pretty(state)
    /\ saved' = Append(saved, state)
    /\ corruptedAfterSave' = FALSE
    /\ loadRecovered' = FALSE
    /\ UNCHANGED lastLoad

\* Something outside the program damages the primary state file.
CorruptPrimary ==
    /\ UNCHANGED nonPersistVars
    /\ stateFile # Absent
    /\ stateFile # Garbage
    /\ stateFile' = Garbage
    /\ corruptedAfterSave' = (saved # <<>>)
    /\ loadRecovered' = FALSE
    /\ UNCHANGED <<backupFile, saved, lastLoad>>

\* load(): the primary file, else the backup file, which is then saved
\* again, else the default state.
load ==
    /\ UNCHANGED nonPersistVars
    /\ loadRecovered' = (~Loads(stateFile) /\ Loads(backupFile))
    /\ LET call(result) == <<[result |-> result, saved |-> saved,
                              corrupted |-> corruptedAfterSave]>>
       IN  IF Loads(stateFile)
           THEN /\ lastLoad' = call(from_str(stateFile))
                /\ UNCHANGED <<stateFile, backupFile, saved,
                               corruptedAfterSave>>
           ELSE IF Loads(backupFile)
           THEN LET state == from_str(backupFile)
                IN  /\ lastLoad' = call(state)
                    /\ backupFile' =
                           BackupBeforeSaving(stateFile, backupFile, state)
                    /\ stateFile' = to_string_pretty(state)
                    /\ saved' = IF Len(saved) < MaxSaves
                                THEN Append(saved, state)
                                ELSE Append(Tail(saved), state)
                    /\ corruptedAfterSave' = FALSE
           ELSE /\ lastLoad' = call(DefaultState)
                /\ UNCHANGED <<stateFile, backupFile, saved,
                               corruptedAfterSave>>

\* clear(): both files are removed.
clear ==
    /\ UNCHANGED nonPersistVars
    /\ stateFile # Absent \/ backupFile # Absent
    /\ stateFile' = Absent
    /\ backupFile' = Absent
    /\ saved' = <<>>
    /\ corruptedAfterSave' = FALSE
    /\ loadRecovered' = FALSE
    /\ UNCHANGED lastLoad

\* C18: a load call made after one or more successful saves and a
\* corruption of the primary file that followed them returns the state of
\* the most recent save.
C18_LoadRecoversLastSaved ==
    \A i \in 1..Len(lastLoad) :
        (lastLoad[i].saved # <<>> /\ lastLoad[i].corrupted)
        => lastLoad[i].result = lastLoad[i].saved[Len(lastLoad[i].saved)]

\* C40: when load() has recovered the state from the backup file, the
\* backup file still holds a valid state, so that the primary file may be
\* damaged once more and the state recovered again.
C40_BackupSurvivesRecovery == loadRecovered => Loads(backupFile)

PersistNext ==
    \/ \E state \in StateValues : save(state)
    \/ CorruptPrimary
    \/ load
    \/ clear

(***************************************************************************)
(* Part IX: the staging buffer of the transport (core/lib/transport/       *)
(* buffer.rs), used by concurrent tasks.                                   *)
(***************************************************************************)
StagingTasks == {"a", "b"}

StagingInit ==
    /\ stagingBuffer = <<>>
    /\ stagingLock = "free"
    /\ metrics_count = 0
    /\ stPc = [t \in StagingTasks |-> "idle"]
    /\ stEntry = [t \in StagingTasks |-> 0]
    /\ stTaken = [t \in StagingTasks |-> <<>>]
    /\ nextEntry = 1
    /\ addedEntries = {}
    /\ flushReturns = <<>>

\* add_metric(entry): metrics_count.fetch_add(1), then wait for the lock.
add_metric(t) ==
    /\ UNCHANGED nonStagingVars
    /\ stPc[t] = "idle"
    /\ nextEntry <= MaxEntries
    /\ metrics_count' = metrics_count + 1
    /\ stEntry' = [stEntry EXCEPT ![t] = nextEntry]
    /\ nextEntry' = nextEntry + 1
    /\ stPc' = [stPc EXCEPT ![t] = "add_lock"]
    /\ UNCHANGED <<stagingBuffer, stagingLock, stTaken, addedEntries,
                   flushReturns>>

\* add_metric: buffer.lock().await; buffer.push(entry).
AddPush(t) ==
    /\ UNCHANGED nonStagingVars
    /\ stPc[t] = "add_lock"
    /\ stagingLock = "free"
    /\ stagingLock' = t
    /\ stagingBuffer' = Append(stagingBuffer, stEntry[t])
    /\ addedEntries' = addedEntries \cup {stEntry[t]}
    /\ stPc' = [stPc EXCEPT ![t] = "add_unlock"]
    /\ UNCHANGED <<metrics_count, stEntry, stTaken, nextEntry, flushReturns>>

\* add_metric: the guard is dropped and should_flush returned.
AddReturn(t) ==
    /\ UNCHANGED nonStagingVars
    /\ stPc[t] = "add_unlock"
    /\ stagingLock' = "free"
    /\ stPc' = [stPc EXCEPT ![t] = "idle"]
    /\ UNCHANGED <<stagingBuffer, metrics_count, stEntry, stTaken, nextEntry,
                   addedEntries, flushReturns>>

\* flush(): wait for the lock.
flush(t) ==
    /\ UNCHANGED nonStagingVars
    /\ stPc[t] = "idle"
    /\ Len(flushReturns) < MaxEntries
    /\ stPc' = [stPc EXCEPT ![t] = "flush_lock"]
    /\ UNCHANGED <<stagingBuffer, stagingLock, metrics_count, stEntry,
                   stTaken, nextEntry, addedEntries, flushReturns>>

\* What buffer.drain(..) leaves in the buffer.
AfterDrain_Cloned(buf) == buf
AfterDrain(buf) == <<>>

\* flush: buffer.lock().await; an empty Vec for an empty buffer, else
\* buffer.drain(..).collect().
FlushDrain(t) ==
    /\ UNCHANGED nonStagingVars
    /\ stPc[t] = "flush_lock"
    /\ stagingLock = "free"
    /\ stagingLock' = t
    /\ stTaken' = [stTaken EXCEPT ![t] = stagingBuffer]
    /\ stagingBuffer' = AfterDrain(stagingBuffer)
    /\ stPc' = [stPc EXCEPT ![t] = "flush_unlock"]
    /\ UNCHANGED <<metrics_count, stEntry, nextEntry, addedEntries,
                   flushReturns>>

\* flush: the guard is dropped and the entries returned.
FlushReturn(t) ==
    /\ UNCHANGED nonStagingVars
    /\ stPc[t] = "flush_unlock"
    /\ stagingLock' = "free"
    /\ flushReturns' = Append(flushReturns, stTaken[t])
    /\ stTaken' = [stTaken EXCEPT ![t] = <<>>]
    /\ stPc' = [stPc EXCEPT ![t] = "idle"]
    /\ UNCHANGED <<stagingBuffer, metrics_count, stEntry, nextEntry,
                   addedEntries>>

\* Number of times e occurs in seq.
Occurrences(seq, e) == Cardinality({i \in 1..Len(seq) : seq[i] = e})

\* Number of times e was handed out by a flush, returned or about to be.
TimesFlushed(e) ==
    LET S == {i \in 1..Len(flushReturns) : Occurrences(flushReturns[i], e) > 0}
        H == {t \in StagingTasks : Occurrences(stTaken[t], e) > 0}
    IN  Cardinality(S) + Cardinality(H)

\* C19: under every interleaving of add_metric and flush calls, an added
\* entry is either still in the buffer, once, or was returned by exactly
\* one flush call, once: none is lost and none is returned twice.
C19_EachEntryFlushedOnce ==
    \A e \in addedEntries :
        /\ Occurrences(stagingBuffer, e) + TimesFlushed(e) = 1
        /\ \A i \in 1..Len(flushReturns) : Occurrences(flushReturns[i], e) <= 1

\* Two flush calls have returned, between them, the three entries added
\* around them.
C19_Witness ==
    /\ Len(flushReturns) = 2
    /\ flushReturns[1] = <<1>>
    /\ flushReturns[2] = <<2, 3>>
    /\ stagingBuffer = <<>>

StagingNext ==
    \E t \in StagingTasks :
        \/ add_metric(t)
        \/ AddPush(t)
        \/ AddReturn(t)
        \/ flush(t)
        \/ FlushDrain(t)
        \/ FlushReturn(t)

(***************************************************************************)
(* Part X: the event buffer of the telemetry crate (telemetry/src/         *)
(* buffer.rs): add_event sends on a channel, a spawned task receives,      *)
(* buffers and flushes.  The model follows one start of the buffer.        *)
(***************************************************************************)
\* TelemetryBuffer::new(config): max_buffer_size is at least 1 (a channel
\* of capacity 0 cannot be made) and buffer_threshold is any size.
EvNew(size, threshold) ==
    /\ evBuffer = <<>>
    /\ max_size = size
    /\ flush_threshold = threshold
    /\ evPipeline = "None"
    /\ evRunning = FALSE
    /\ evStarted = FALSE
    /\ evChannel = <<>>
    /\ nextBufEvent = 1
    /\ lastArrival = <<>>
    /\ evBatches = <<>>

\* The buffer while the other parts run.
EvInit == EvNew(1, 1)

\* TelemetryBuffer::set_pipeline (&mut self: before the buffer is shared).
BufferSetPipeline ==
    /\ UNCHANGED nonEvVars
    /\ ~evStarted
    /\ evPipeline = "None"
    /\ evPipeline' = "Some"
    /\ UNCHANGED <<evBuffer, max_size, flush_threshold, evRunning, evStarted,
                   evChannel, nextBufEvent, lastArrival, evBatches>>

\* TelemetryBuffer::start: set running and spawn the task.
BufferStart ==
    /\ UNCHANGED nonEvVars
    /\ ~evRunning
    /\ ~evStarted
    /\ evRunning' = TRUE
    /\ evStarted' = TRUE
    /\ UNCHANGED <<evBuffer, max_size, flush_threshold, evPipeline, evChannel,
                   nextBufEvent, lastArrival, evBatches>>

\* TelemetryBuffer::add_event: event_tx.send(event).await, which waits
\* while the channel, of capacity max_buffer_size, is full.
add_event ==
    /\ UNCHANGED nonEvVars
    /\ nextBufEvent <= MaxBufEvents
    /\ Len(evChannel) < max_size
    /\ evChannel' = Append(evChannel, nextBufEvent)
    /\ nextBufEvent' = nextBufEvent + 1
    /\ UNCHANGED <<evBuffer, max_size, flush_threshold, evPipeline, evRunning,
                   evStarted, lastArrival, evBatches>>

\* buffer_guard.pop_front().
pop_front_Newest(buf) == SubSeq(buf, 1, Len(buf) - 1)
pop_front(buf) == Tail(buf)

\* The overflow branch followed by push_back(event).
Pushed(buf, event) ==
    Append(IF Len(buf) >= max_size THEN pop_front(buf) ELSE buf, event)

\* flush_buffer: the buffer after it.  It is drained when a pipeline is
\* set, whatever process_batch returns, and left alone otherwise.
AfterFlush(buf) == IF evPipeline = "Some" THEN <<>> ELSE buf
Batches(buf) ==
    IF evPipeline = "Some" /\ buf # <<>> THEN Append(evBatches, buf)
    ELSE evBatches

\* The task, `Some(event) = event_rx.recv()`: evict on overflow, push, and
\* flush when the threshold is reached.
BufferRecv ==
    /\ UNCHANGED nonEvVars
    /\ evStarted
    /\ evChannel # <<>>
    /\ LET event == Head(evChannel)
           pushed == Pushed(evBuffer, event)
       IN  /\ evChannel' = Tail(evChannel)
           /\ lastArrival' = <<[before |-> evBuffer, event |-> event,
                                pushed |-> pushed]>>
           /\ IF Len(pushed) >= flush_threshold
              THEN /\ evBuffer' = AfterFlush(pushed)
                   /\ evBatches' = Batches(pushed)
              ELSE /\ evBuffer' = pushed
                   /\ UNCHANGED evBatches
    /\ UNCHANGED <<max_size, flush_threshold, evPipeline, evRunning, evStarted,
                   nextBufEvent>>

\* The task, `_ = ticker.tick()`: flush a buffer that is not empty.  With no
\* pipeline set the branch changes nothing.
BufferTick ==
    /\ UNCHANGED nonEvVars
    /\ evStarted
    /\ evBuffer # <<>>
    /\ evPipeline = "Some"
    /\ evBuffer' = AfterFlush(evBuffer)
    /\ evBatches' = Batches(evBuffer)
    /\ UNCHANGED <<max_size, flush_threshold, evPipeline, evRunning, evStarted,
                   evChannel, nextBufEvent, lastArrival>>

\* TelemetryBuffer::stop: clear running and flush what is buffered.
BufferStop ==
    /\ UNCHANGED nonEvVars
    /\ evRunning
    /\ evRunning' = FALSE
    /\ evBuffer' = AfterFlush(evBuffer)
    /\ evBatches' = Batches(evBuffer)
    /\ UNCHANGED <<max_size, flush_threshold, evPipeline, evStarted, evChannel,
                   nextBufEvent, lastArrival>>

\* C20: the buffer never holds more than max_size events, and an event
\* that arrives while it holds max_size events evicts exactly the oldest
\* one and is appended.
C20_OverflowEvictsOldest ==
    /\ Len(evBuffer) <= max_size
    /\ \A i \in 1..Len(lastArrival) :
          /\ Len(lastArrival[i].pushed) <= max_size
          /\ Len(lastArrival[i].before) = max_size
             => lastArrival[i].pushed =
                    Append(Tail(lastArrival[i].before), lastArrival[i].event)

\* An event arrived at a buffer holding max_size = 2 events.
C20_Witness ==
    /\ max_size = 2
    /\ Len(lastArrival) = 1
    /\ Len(lastArrival[1].before) = 2
    /\ lastArrival[1].pushed =
           <<lastArrival[1].before[2], lastArrival[1].event>>

\* C37: once stop() has returned, the task spawned by start performs no
\* flush: no batch is handed to the pipeline while running is false.  (The
\* claim also has the task leave its loop; the loop's only exit is the
\* `else` branch of select!, which runs when every other branch is
\* disabled, and the branch of the ticker never is: the task has no step
\* that leaves the loop.)
C37_NoFlushAfterStop ==
    [][(evStarted /\ ~evRunning) => evBatches' = evBatches]_vars

EvNext ==
    \/ BufferSetPipeline
    \/ BufferStart
    \/ add_event
    \/ BufferRecv
    \/ BufferTick
    \/ BufferStop

(***************************************************************************)
(* Part XI: the path of the events of a batch: buffer, batch, the          *)
(* processors of telemetry/src/processor.rs, transports.  An event is a    *)
(* record of its insertion number and of the stages that changed it.       *)
(***************************************************************************)
ProcessorKinds == {"filter", "transform", "enrich"}
PathTransports == {"t1", "t2"}

\* The pipelines: up to MaxPathProcessors processors.
PathPipelines ==
    UNION {[1..n -> ProcessorKinds] : n \in 0..MaxPathProcessors}

PathNew(procs) ==
    /\ pathPipeline = procs
    /\ pathBuffer = <<>>
    /\ pathBatch = <<>>
    /\ pathStage = 0
    /\ nextPathEvent = 1
    /\ pathDelivered = [t \in PathTransports |-> <<>>]

\* The path while the other parts run.
PathInit == PathNew(<<>>)

\* The filter of the FilteringProcessor and the events the transform of
\* the TransformationProcessor fails on.
Passes(event) == event.seq % 2 = 1
TransformFails(event) == event.seq % 3 = 0
Changed(event) == [event EXCEPT !.stages = @ + 1]

\* FilteringProcessor::process_batch: into_iter().filter().collect().
FilteringProcess(events) == SelectSeq(events, Passes)

\* transformed_events.push(transformed).
push_Front(events, event) == <<event>> \o events
push(events, event) == Append(events, event)

\* TransformationProcessor::process_batch: the events in order, one that
\* fails is counted and left out.
RECURSIVE TransformFrom(_, _)
TransformFrom(events, transformed_events) ==
    IF events = <<>> THEN transformed_events
    ELSE TransformFrom(Tail(events),
             IF TransformFails(Head(events)) THEN transformed_events
             ELSE push(transformed_events, Changed(Head(events))))
TransformationProcess(events) == TransformFrom(events, <<>>)

\* EnrichmentProcessor::process_batch: every event in place.
EnrichmentProcess(events) == [i \in 1..Len(events) |-> Changed(events[i])]

Process(kind, events) ==
    CASE kind = "filter" -> FilteringProcess(events)
      [] kind = "transform" -> TransformationProcess(events)
      [] OTHER -> EnrichmentProcess(events)

\* The buffer's task receives an event: evict the oldest at max_size
\* (MaxSize here), push at the back.
PathInsert ==
    /\ UNCHANGED nonPathVars
    /\ nextPathEvent <= MaxPathEvents
    /\ pathBuffer' = Append(IF Len(pathBuffer) >= MaxSize
                            THEN Tail(pathBuffer) ELSE pathBuffer,
                            [seq |-> nextPathEvent, stages |-> 0])
    /\ nextPathEvent' = nextPathEvent + 1
    /\ UNCHANGED <<pathPipeline, pathBatch, pathStage, pathDelivered>>

\* flush_buffer_to_pipeline: buffer.drain(..).collect() becomes the batch
\* that process_batch is called with.
PathFlush ==
    /\ UNCHANGED nonPathVars
    /\ pathStage = 0
    /\ pathBuffer # <<>>
    /\ pathBatch' = pathBuffer
    /\ pathBuffer' = <<>>
    /\ pathStage' = 1
    /\ UNCHANGED <<pathPipeline, nextPathEvent, pathDelivered>>

\* process_batch: the next processor replaces the batch.
PathProcessor ==
    /\ UNCHANGED nonPathVars
    /\ pathStage \in 1..Len(pathPipeline)
    /\ pathBatch' = Process(pathPipeline[pathStage], pathBatch)
    /\ pathStage' = pathStage + 1
    /\ UNCHANGED <<pathPipeline, pathBuffer, nextPathEvent, pathDelivered>>

\* process_batch: every transport is sent a clone of the batch.
PathTransportsSend ==
    /\ UNCHANGED nonPathVars
    /\ pathStage = Len(pathPipeline) + 1
    /\ pathDelivered' = [t \in PathTransports |->
                            Append(pathDelivered[t], pathBatch)]
    /\ pathBatch' = <<>>
    /\ pathStage' = 0
    /\ UNCHANGED <<pathPipeline, pathBuffer, nextPathEvent>>

\* C21: the events of every batch a transport is sent are in the order in
\* which they were inserted into the buffer.
C21_BatchKeepsInsertionOrder ==
    \A t \in PathTransports :
        \A b \in 1..Len(pathDelivered[t]) :
            \A i, j \in 1..Len(pathDelivered[t][b]) :
                i < j => pathDelivered[t][b][i].seq < pathDelivered[t][b][j].seq

\* A transport was sent a batch of two events that went through a
\* TransformationProcessor.
C21_Witness ==
    \E t \in PathTransports :
        \E b \in 1..Len(pathDelivered[t]) :
            /\ Len(pathDelivered[t][b]) = 2
            /\ pathDelivered[t][b][1].stages > 0
            /\ \E k \in 1..Len(pathPipeline) : pathPipeline[k] = "transform"

PathNext ==
    \/ PathInsert
    \/ PathFlush
    \/ PathProcessor
    \/ PathTransportsSend

(***************************************************************************)
(* Part XII: the retry loops: HttpTransport::send_batch                    *)
(* (telemetry/src/transport.rs) and ship_with_retry                        *)
(* (core/lib/transport/retry.rs).  A run follows one call of one of them.  *)
(***************************************************************************)
Min(a, b) == IF a <= b THEN a ELSE b

\* backoff_factor 1.0, 1.5 and 2.0.
BackoffHalves == {2, 3, 4}

HttpNew(pc0, retries, initial, maxd, halves) ==
    /\ max_retries = retries
    /\ initial_delay = initial
    /\ max_delay = maxd
    /\ backoff_halves = halves
    /\ httpPc = pc0
    /\ retry_count = 0
    /\ delay = initial
    /\ httpAttempts = 0
    /\ httpWaits = <<>>
    /\ httpResult = "none"

ShipRetryNew(pc0, attempts, rdelay) ==
    /\ max_attempts = attempts
    /\ retry_delay = rdelay
    /\ shipPc = pc0
    /\ attempt = 1
    /\ shipAttempts = 0
    /\ shipWaits = <<>>
    /\ shipResult = "none"

\* The loops while the other parts run.
RetryInit == HttpNew("none", 3, 1, 1, 4) /\ ShipRetryNew("none", 3, 1)

\* HttpTransport::send_batch is called.
send_batch ==
    /\ UNCHANGED nonRetryVars
    /\ httpPc = "idle"
    /\ httpPc' = "send"
    /\ retry_count' = 0
    /\ delay' = initial_delay
    /\ UNCHANGED <<max_retries, initial_delay, max_delay, backoff_halves,
                   httpAttempts, httpWaits, httpResult, max_attempts,
                   retry_delay, shipPc, attempt, shipAttempts, shipWaits,
                   shipResult>>

\* send_batch: send_http_request returns.  It stands for the HTTP request
\* and either succeeds or fails.
HttpSend(outcome) ==
    /\ UNCHANGED nonRetryVars
    /\ httpPc = "send"
    /\ httpAttempts' = httpAttempts + 1
    /\ IF outcome = "Ok"
       THEN /\ httpPc' = "done"
            /\ httpResult' = "Ok"
            /\ UNCHANGED retry_count
       ELSE /\ retry_count' = retry_count + 1
            /\ IF retry_count + 1 >= max_retries
               THEN httpPc' = "done" /\ httpResult' = "Err"
               ELSE httpPc' = "sleep" /\ UNCHANGED httpResult
    /\ UNCHANGED <<max_retries, initial_delay, max_delay, backoff_halves,
                   delay, httpWaits, max_attempts, retry_delay, shipPc,
                   attempt, shipAttempts, shipWaits, shipResult>>

\* send_batch: sleep(delay), then
\* delay = (delay as f64 * backoff_factor) as u64 .min(max_delay).
HttpSleep ==
    /\ UNCHANGED nonRetryVars
    /\ httpPc = "sleep"
    /\ httpWaits' = Append(httpWaits, delay)
    /\ delay' = Min((delay * backoff_halves) \div 2, max_delay)
    /\ httpPc' = "send"
    /\ UNCHANGED <<max_retries, initial_delay, max_delay, backoff_halves,
                   retry_count, httpAttempts, httpResult, max_attempts,
                   retry_delay, shipPc, attempt, shipAttempts, shipWaits,
                   shipResult>>

\* ship_with_retry is called: `for attempt in 1..=max_attempts`, and the
\* error after the loop.
ship_with_retry ==
    /\ UNCHANGED nonRetryVars
    /\ shipPc = "idle"
    /\ attempt' = 1
    /\ IF max_attempts >= 1
       THEN shipPc' = "attempt" /\ UNCHANGED shipResult
       ELSE shipPc' = "done" /\ shipResult' = "Err"
    /\ UNCHANGED <<max_retries, initial_delay, max_delay, backoff_halves,
                   httpPc, retry_count, delay, httpAttempts, httpWaits,
                   httpResult, max_attempts, retry_delay, shipAttempts,
                   shipWaits>>

\* ship_with_retry: one request; a success status returns Ok, any other
\* status or a transport error goes on.
ShipAttempt(outcome) ==
    /\ UNCHANGED nonRetryVars
    /\ shipPc = "attempt"
    /\ shipAttempts' = shipAttempts + 1
    /\ IF outcome = "Ok"
       THEN shipPc' = "done" /\ shipResult' = "Ok"
       ELSE IF attempt < max_attempts
            THEN shipPc' = "sleep" /\ UNCHANGED shipResult
            ELSE shipPc' = "done" /\ shipResult' = "Err"
    /\ UNCHANGED <<max_retries, initial_delay, max_delay, backoff_halves,
                   httpPc, retry_count, delay, httpAttempts, httpWaits,
                   httpResult, max_attempts, retry_delay, attempt, shipWaits>>

\* ship_with_retry: sleep(retry_delay * jitter * attempt); the nominal wait
\* is retry_delay * attempt.
ShipSleep ==
    /\ UNCHANGED nonRetryVars
    /\ shipPc = "sleep"
    /\ shipWaits' = Append(shipWaits, retry_delay * attempt)
    /\ attempt' = attempt + 1
    /\ shipPc' = "attempt"
    /\ UNCHANGED <<max_retries, initial_delay, max_delay, backoff_halves,
                   httpPc, retry_count, delay, httpAttempts, httpWaits,
                   httpResult, max_attempts, retry_delay, shipAttempts,
                   shipResult>>

\* C22: a retry loop makes at most the configured number of attempts, and
\* an error it returns comes after that many failed attempts.
C22_AttemptsAreCapped ==
    /\ httpAttempts <= max_retries
    /\ shipAttempts <= max_attempts
    /\ httpResult = "Err" => httpAttempts = max_retries
    /\ shipResult = "Err" => shipAttempts = max_attempts

\* waits follow delay' = min(delay * factor, cap), to the millisecond.
Backoff(waits, halves, cap) ==
    /\ \A n \in 1..Len(waits) : waits[n] <= cap
    /\ \A n \in 1..(Len(waits) - 1) :
          waits[n + 1] = Min((waits[n] * halves) \div 2, cap)

\* C23: the nominal waits of a retry loop are an exponential backoff with
\* a cap: each is the one before times the factor, at most max_delay.
C23_WaitsBackOffToCap ==
    /\ Backoff(httpWaits, backoff_halves, max_delay)
    /\ \E halves \in BackoffHalves, cap \in 1..(MaxRetries * MaxDelay) :
          Backoff(shipWaits, halves, cap)

RetryNext ==
    \/ send_batch
    \/ \E outcome \in {"Ok", "Err"} : HttpSend(outcome)
    \/ HttpSleep
    \/ ship_with_retry
    \/ \E outcome \in {"Ok", "Err"} : ShipAttempt(outcome)
    \/ ShipSleep

(***************************************************************************)
(* Part XIII: MemoryPool (core/lib/state/memory_pool.rs), in units of      *)
(* ALIGNMENT bytes.                                                        *)
(***************************************************************************)
\* MemoryPool::new(size).
PoolNew(size) ==
    /\ buffer_size = size
    /\ next_free = 0
    /\ max_used = 0
    /\ poolLive = {}
    /\ lastAllocate = <<>>
    /\ poolGiven = {}
    /\ poolOverlap = FALSE

\* The pool while the other parts run.
PoolInit == PoolNew(1)

\* The units of the buffer that a held allocation covers.
UnitsOf(a) == a.offset..(a.offset + a.size - 1)
InUse == UNION {UnitsOf(a) : a \in poolLive}
AllInUse == InUse = 0..(buffer_size - 1)

\* MemoryPool::allocate(size): reserve with fetch_add; past the end of the
\* buffer, store 0 in next_free and return the error.
allocate(aligned_size) ==
    /\ UNCHANGED nonPoolVars
    /\ LET offset == next_free
           fits == offset + aligned_size <= buffer_size
       IN  /\ next_free' = IF fits THEN offset + aligned_size ELSE 0
           /\ max_used' = IF fits /\ offset + aligned_size > max_used
                          THEN offset + aligned_size ELSE max_used
           /\ poolLive' = IF fits
                          THEN poolLive \cup {[offset |-> offset,
                                               size |-> aligned_size]}
                          ELSE poolLive
           /\ lastAllocate' = <<[full |-> AllInUse,
                                 result |-> IF fits THEN "Ok" ELSE "Err",
                                 offset |-> offset,
                                 taken |-> InUse]>>
           /\ poolGiven' = IF fits
                           THEN poolGiven \cup (offset..(offset + aligned_size - 1))
                           ELSE poolGiven
           /\ poolOverlap' =
                  (poolOverlap \/
                   (fits /\ (offset..(offset + aligned_size - 1))
                                \cap poolGiven # {}))
    /\ UNCHANGED buffer_size

\* A caller drops a PoolAllocation; the pool is not told.
PoolDrop(a) ==
    /\ UNCHANGED nonPoolVars
    /\ a \in poolLive
    /\ poolLive' = poolLive \ {a}
    /\ UNCHANGED <<buffer_size, next_free, max_used, lastAllocate,
                   poolGiven, poolOverlap>>

\* MemoryPool::reset.
PoolReset ==
    /\ UNCHANGED nonPoolVars
    /\ next_free # 0 \/ poolGiven # {}
    /\ next_free' = 0
    /\ poolGiven' = {}
    /\ UNCHANGED <<buffer_size, max_used, poolLive, lastAllocate,
                   poolOverlap>>

\* C38: the regions returned by two successful allocate calls with no
\* reset() between them do not overlap, also when an allocate call has
\* failed in between.
C38_RegionsDisjointUntilReset == ~poolOverlap

\* C24: an allocation attempted while every unit of the pool is in use
\* returns an error.
C24_ExhaustedPoolRefuses ==
    \A i \in 1..Len(lastAllocate) :
        lastAllocate[i].full => lastAllocate[i].result = "Err"

PoolNext ==
    \/ \E aligned_size \in 1..2 : allocate(aligned_size)
    \/ \E a \in [offset : 0..MaxPoolSlots, size : 1..2] : PoolDrop(a)
    \/ PoolReset

(***************************************************************************)
(* Part XIV: preload_components (core/lib/startup/preload.rs).  Estimates  *)
(* and the budget are in the same unit.                                    *)
(***************************************************************************)
\* memory_limit_mb = None.
NoLimit == MaxEstimate * MaxComponents + 1
MemoryLimits == (0..MaxEstimate) \cup {NoLimit}
ComponentLists == UNION {[1..n -> 0..MaxEstimate] : n \in 1..MaxComponents}

PreloadInit ==
    /\ PRELOAD_COMPLETED = FALSE
    /\ preComponents = <<>>
    /\ memory_limit = NoLimit
    /\ prePc = "idle"
    /\ preIdx = 0
    /\ total_memory = 0
    /\ preLog = <<>>
    /\ preSkipped = FALSE
    /\ preCalls = 0

\* preload_components(components, memory_limit_mb): PRELOAD_COMPLETED.swap(
\* true); a call that finds it set returns, having run nothing.
preload_components(components, limit) ==
    /\ UNCHANGED nonPreloadVars
    /\ prePc = "idle"
    /\ preCalls < MaxPreloadCalls
    /\ preCalls' = preCalls + 1
    /\ PRELOAD_COMPLETED' = TRUE
    /\ preComponents' = components
    /\ memory_limit' = limit
    /\ total_memory' = 0
    /\ preSkipped' = PRELOAD_COMPLETED
    /\ IF PRELOAD_COMPLETED
       THEN /\ preLog' = [i \in 1..Len(components) |->
                             [est |-> components[i], ran |-> FALSE]]
            /\ prePc' = "idle"
            /\ preIdx' = 0
       ELSE /\ preLog' = <<>>
            /\ prePc' = "loop"
            /\ preIdx' = 1

\* total_memory after a component: `total_memory += estimated_memory` for a
\* component that was preloaded, nothing for a skipped one.
Tracked_SkippedToo(total, estimated_memory, ran) == total + estimated_memory
Tracked(total, estimated_memory, ran) ==
    IF ran THEN total + estimated_memory ELSE total

\* One round of the loop: skip the component when
\* total_memory + estimated_memory > limit, else preload() it.
PreloadComponent ==
    /\ UNCHANGED nonPreloadVars
    /\ prePc = "loop"
    /\ preIdx <= Len(preComponents)
    /\ LET estimated_memory == preComponents[preIdx]
           ran == ~(memory_limit # NoLimit
                    /\ total_memory + estimated_memory > memory_limit)
       IN  /\ preLog' = Append(preLog, [est |-> estimated_memory, ran |-> ran])
           /\ total_memory' = Tracked(total_memory, estimated_memory, ran)
    /\ preIdx' = preIdx + 1
    /\ UNCHANGED <<PRELOAD_COMPLETED, preComponents, memory_limit, prePc,
                   preSkipped, preCalls>>

\* The loop is over and the call returns.
PreloadReturn ==
    /\ UNCHANGED nonPreloadVars
    /\ prePc = "loop"
    /\ preIdx > Len(preComponents)
    /\ prePc' = "idle"
    /\ UNCHANGED <<PRELOAD_COMPLETED, preComponents, memory_limit, preIdx,
                   total_memory, preLog, preSkipped, preCalls>>

\* Sum of the estimates of the components among the first n that ran.
RECURSIVE RanBefore(_)
RanBefore(n) ==
    IF n = 0 THEN 0
    ELSE RanBefore(n - 1) + (IF preLog[n].ran THEN preLog[n].est ELSE 0)

\* Each component of the latest call ran if and only if the estimates of
\* those run before it plus its own did not exceed the budget, and the
\* estimates of those run do not exceed the budget.
BudgetRule ==
    /\ \A i \in 1..Len(preLog) :
          preLog[i].ran <=>
              (memory_limit = NoLimit
               \/ RanBefore(i - 1) + preLog[i].est <= memory_limit)
    /\ memory_limit # NoLimit => RanBefore(Len(preLog)) <= memory_limit

\* C25, as stated: every call of preload_components follows the budget
\* rule.
C25_RunsIffWithinBudget == BudgetRule

\* C25, amended: a call of preload_components that finds PRELOAD_COMPLETED
\* clear follows the budget rule (a later call runs no preloader at all).
C25_FirstCallRunsIffWithinBudget == ~preSkipped => BudgetRule

\* A call skipped a component over the budget and ran a later one.
C25_Witness ==
    /\ ~preSkipped
    /\ prePc = "idle"
    /\ Len(preLog) = 3
    /\ preLog[1].ran
    /\ ~preLog[2].ran
    /\ preLog[3].ran /\ preLog[3].est > 0

PreloadNext ==
    \/ \E components \in ComponentLists, limit \in MemoryLimits :
          preload_components(components, limit)
    \/ PreloadComponent
    \/ PreloadReturn

(***************************************************************************)
(* Part XV: FieldRegistry (core/lib/telemetry/protocol/registry.rs).       *)
(* Ids are u8.  A name is a number: -i is the canonical name of reserved   *)
(* id i, 1, 2, ... are the names registered in turn.                       *)
(***************************************************************************)
U8 == 256
ReservedRange == 1..9
ReservedName(i) == 0 - i
\* reserved_ids.contains_key(name).
IsReserved(name) == \E i \in ReservedRange : name = ReservedName(i)

\* HashMap::insert.
Insert(map, key, value) ==
    [k \in DOMAIN map \cup {key} |-> IF k = key THEN value ELSE map[k]]

\* FieldRegistry::new: ids 1..9 reserved, next_id is 10.
NewNameToId == [name \in {ReservedName(i) : i \in ReservedRange} |-> 0 - name]
NewIdToName == [i \in ReservedRange |-> ReservedName(i)]

FieldInit ==
    /\ name_to_id = NewNameToId
    /\ id_to_name = NewIdToName
    /\ next_id = 10
    /\ nextName = 1
    /\ lastField = "new"
    /\ everDeserialized = FALSE

\* The scan of register_and_get_id_for_field after next_id wrapped: the
\* first id of 10..=255 that id_to_name does not hold, else next_id stays.
ScanFree(wrapped) ==
    LET free == {i \in 10..255 : i \notin DOMAIN id_to_name}
    IN  IF free = {} THEN wrapped
        ELSE CHOOSE i \in free : \A j \in free : i <= j

\* register_and_get_id_for_field(name).
register_and_get_id_for_field(name) ==
    /\ UNCHANGED nonFieldVars
    /\ name <= nextName
    /\ IF name \in DOMAIN name_to_id
       THEN /\ lastField' = "known"
            /\ UNCHANGED <<name_to_id, id_to_name, next_id, nextName>>
       ELSE LET id == next_id
                wrapped == (next_id + 1) % U8
            IN  /\ next_id' = IF wrapped < 10 THEN ScanFree(wrapped) ELSE wrapped
                /\ name_to_id' = Insert(name_to_id, name, id)
                /\ id_to_name' = Insert(id_to_name, id, name)
                /\ nextName' = nextName + 1
                /\ lastField' = "registered"
    /\ UNCHANGED everDeserialized

\* The mappings deserialize reads, in order: a mapping whose name is
\* reserved is passed over, any other is inserted in both maps.
RECURSIVE ReadMappings(_, _)
ReadMappings(mappings, maps) ==
    IF mappings = <<>> THEN maps
    ELSE LET id == Head(mappings)[1]
             name == Head(mappings)[2]
         IN  ReadMappings(Tail(mappings),
                 IF IsReserved(name) THEN maps
                 ELSE [names |-> Insert(maps.names, name, id),
                       ids |-> Insert(maps.ids, id, name)])

Max(S) == CHOOSE x \in S : \A y \in S : y <= x

\* FieldRegistry::deserialize(data) for data it accepts: the version is
\* PROTOCOL_FIELD_REGISTRY_VERSION and the data holds the counted
\* mappings.  The result is a registry of its own, which does not depend
\* on the one at hand: the model builds it before names are registered.
deserialize(version, count, mappings) ==
    /\ UNCHANGED nonFieldVars
    /\ nextName = 1
    /\ version = 1
    /\ count <= Len(mappings)
    /\ LET maps == ReadMappings(SubSeq(mappings, 1, count),
                       [names |-> NewNameToId, ids |-> NewIdToName])
           max_id == Max({maps.names[n] : n \in DOMAIN maps.names})
           after == (max_id + 1) % U8
       IN  /\ name_to_id' = maps.names
           /\ id_to_name' = maps.ids
           /\ next_id' = IF after < 10 THEN 10 ELSE after
    /\ nextName' = 1
    /\ lastField' = "deserialized"
    /\ everDeserialized' = TRUE

\* C26: the dictionary is injective in both directions: no two names have
\* the same id, and id_to_name is the exact inverse of name_to_id.
C26_DictionaryIsBijective ==
    /\ \A n1, n2 \in DOMAIN name_to_id :
          name_to_id[n1] = name_to_id[n2] => n1 = n2
    /\ DOMAIN id_to_name = {name_to_id[n] : n \in DOMAIN name_to_id}
    /\ \A n \in DOMAIN name_to_id : id_to_name[name_to_id[n]] = n

\* C27: after register calls only, ids 1..9 map to their canonical names
\* and every other name has an id of 10..255.
C27_ReservedKeptDynamicInRange ==
    ~everDeserialized =>
        /\ \A i \in ReservedRange :
              i \in DOMAIN id_to_name /\ id_to_name[i] = ReservedName(i)
        /\ \A n \in DOMAIN name_to_id :
              ~IsReserved(n) => name_to_id[n] \in 10..255

\* C28: the dictionary deserialize returns maps each reserved id to its
\* canonical name and each canonical name to its reserved id.
C28_DeserializeKeepsReserved ==
    lastField = "deserialized" =>
        \A i \in ReservedRange :
            /\ i \in DOMAIN id_to_name /\ id_to_name[i] = ReservedName(i)
            /\ ReservedName(i) \in DOMAIN name_to_id
            /\ name_to_id[ReservedName(i)] = i

\* Names and ids of the data given to deserialize.
DataNames == {ReservedName(3), 1001, 1002}
DataIds == {3, 10, 255}
DataMappings == UNION {[1..n -> DataIds \X DataNames] : n \in 0..MaxMappings}

FieldNext ==
    \/ \E name \in {ReservedName(i) : i \in ReservedRange} \cup (1..MaxNames) :
          register_and_get_id_for_field(name)
    \/ \E version \in {1, 2}, count \in 0..MaxMappings,
          mappings \in DataMappings :
          deserialize(version, count, mappings)

(***************************************************************************)
(* Part XVI: CompactMetricsRecord (core/lib/telemetry/protocol/            *)
(* compact.rs): fields packed into 64-bit blocks.                          *)
(***************************************************************************)
\* CompactMetricsRecord::new.
CompactInit ==
    /\ bitpacked_data = <<>>
    /\ field_mapping = <<>>
    /\ fieldWidth = <<>>
    /\ nextFieldId = 1

\* The bits set in value, a number below 2^16.
BitsOf(value) == {i \in 0..15 : (value \div (2 ^ i)) % 2 = 1}

\* allocate_bits(bit_count): <<block index, bit offset, pushes a block>>.
\* An empty record gets block 0; else the offset is one past the highest
\* bit set in the last block, or 0 in a new block when that does not fit.
allocate_bits(bit_count) ==
    IF bitpacked_data = <<>> THEN <<0, 0, TRUE>>
    ELSE LET last_block == bitpacked_data[Len(bitpacked_data)]
             highest_bit == IF last_block = {} THEN 0
                            ELSE 1 + CHOOSE b \in last_block :
                                         \A c \in last_block : c <= b
         IN  IF highest_bit + bit_count <= 64
             THEN <<Len(bitpacked_data) - 1, highest_bit, FALSE>>
             ELSE <<Len(bitpacked_data), 0, TRUE>>

\* add_bool_field, add_small_int_field, add_medium_int_field and
\* add_large_int_field: allocate, or the value's bits into the block,
\* record (block index, bit offset) under the field id.
add_field(bit_count, value) ==
    /\ UNCHANGED nonCompactVars
    /\ nextFieldId <= MaxFields
    /\ LET a == allocate_bits(bit_count)
           blocks == IF a[3] THEN Append(bitpacked_data, {})
                     ELSE bitpacked_data
           bits == {a[2] + i : i \in BitsOf(value)}
       IN  /\ bitpacked_data' =
                  [blocks EXCEPT ![a[1] + 1] = @ \cup bits]
           /\ field_mapping' = Append(field_mapping, <<a[1], a[2]>>)
    /\ fieldWidth' = Append(fieldWidth, bit_count)
    /\ nextFieldId' = nextFieldId + 1

\* The bits of the record that field f was given.
RangeOfField(f) ==
    {<<field_mapping[f][1], field_mapping[f][2] + i>> :
        i \in 0..(fieldWidth[f] - 1)}

\* C29: the bit ranges of distinct fields of a record do not overlap.
C29_FieldRangesDisjoint ==
    \A f, g \in 1..Len(field_mapping) :
        f # g => RangeOfField(f) \cap RangeOfField(g) = {}

\* The calls: bit count and value.
FieldCalls ==
    ({1} \X {0, 1}) \cup ({4} \X {0, 15}) \cup ({8} \X {255})
        \cup ({16} \X {0, 65535})

CompactNext ==
    \E call \in FieldCalls : add_field(call[1], call[2])

(***************************************************************************)
(* Part XVII: Lazy (core/lib/startup/lazy_init.rs): a value built on first *)
(* use under a std::sync::Once, shared by several threads.                 *)
(***************************************************************************)
LazyThreads == 1..MaxLazyThreads

\* Option::None of the value cell.
NoValue == 0

\* What the n-th run of the init function builds: a new object per run.
Built(n) == 41 + n

\* No call of is_initialized() has returned yet.
NoProbe == <<>>

\* Lazy::new.
LazyInit ==
    /\ init_once = "incomplete"
    /\ lazy_init = TRUE
    /\ lazy_value = NoValue
    /\ initRuns = 0
    /\ lazyPc = [t \in LazyThreads |-> "idle"]
    /\ lazyGot = [t \in LazyThreads |-> NoValue]
    /\ lazyCalls = 0
    /\ everProbed = FALSE
    /\ lazyProbe = NoProbe

\* Once::call_once lets a caller into the closure only while the Once is
\* incomplete; while another caller runs the closure it blocks.
MayEnter_WhileRunning == init_once \in {"incomplete", "running"}

MayEnter == init_once = "incomplete"

\* Lazy::initialize, which Lazy::get forwards to: the caller arrives at
\* init_once.call_once.
lazy_initialize(t) ==
    /\ UNCHANGED nonLazyVars
    /\ lazyPc[t] = "idle"
    /\ lazyCalls < MaxLazyCalls
    /\ lazyCalls' = lazyCalls + 1
    /\ lazyPc' = [lazyPc EXCEPT ![t] = "call_once"]
    /\ UNCHANGED <<init_once, lazy_init, lazy_value, initRuns, lazyGot, everProbed, lazyProbe>>

\* call_once: skip the closure when the Once is complete, panic when it is
\* poisoned, enter the closure when allowed, wait otherwise.
call_once(t) ==
    /\ UNCHANGED nonLazyVars
    /\ lazyPc[t] = "call_once"
    /\ \/ /\ init_once = "complete"
          /\ lazyPc' = [lazyPc EXCEPT ![t] = "return"]
          /\ UNCHANGED init_once
       \/ /\ init_once = "poisoned"
          /\ lazyPc' = [lazyPc EXCEPT ![t] = "panicked"]
          /\ UNCHANGED init_once
       \/ /\ MayEnter
          /\ init_once' = "running"
          /\ lazyPc' = [lazyPc EXCEPT ![t] = "closure"]
    /\ UNCHANGED <<lazy_init, lazy_value, initRuns, lazyGot, lazyCalls, everProbed, lazyProbe>>

\* The closure up to init(): take the function out of its cell (a panic,
\* which poisons the Once, when it is gone) and run it.
ClosureRun(t) ==
    /\ UNCHANGED nonLazyVars
    /\ lazyPc[t] = "closure"
    /\ IF lazy_init
       THEN /\ lazy_init' = FALSE
            /\ initRuns' = initRuns + 1
            /\ lazyPc' = [lazyPc EXCEPT ![t] = "store"]
            /\ UNCHANGED init_once
       ELSE /\ init_once' = "poisoned"
            /\ lazyPc' = [lazyPc EXCEPT ![t] = "panicked"]
            /\ UNCHANGED <<lazy_init, initRuns>>
    /\ UNCHANGED <<lazy_value, lazyGot, lazyCalls, everProbed, lazyProbe>>

\* The rest of the closure: store the value; the Once becomes complete.
ClosureStore(t) ==
    /\ UNCHANGED nonLazyVars
    /\ lazyPc[t] = "store"
    /\ lazy_value' = Built(initRuns)
    /\ init_once' = "complete"
    /\ lazyPc' = [lazyPc EXCEPT ![t] = "return"]
    /\ UNCHANGED <<lazy_init, initRuns, lazyGot, lazyCalls, everProbed, lazyProbe>>

\* (*self.value.get()).as_ref().unwrap(): the value, or a panic on None.
LazyReturn(t) ==
    /\ UNCHANGED nonLazyVars
    /\ lazyPc[t] = "return"
    /\ IF lazy_value = NoValue
       THEN /\ lazyPc' = [lazyPc EXCEPT ![t] = "panicked"]
            /\ UNCHANGED lazyGot
       ELSE /\ lazyPc' = [lazyPc EXCEPT ![t] = "idle"]
            /\ lazyGot' = [lazyGot EXCEPT ![t] = lazy_value]
    /\ UNCHANGED <<init_once, lazy_init, lazy_value, initRuns, lazyCalls, everProbed, lazyProbe>>

\* is_initialized(): call_once_force with a closure that only sets a flag;
\* on an incomplete or poisoned Once the closure runs and completes it.
is_initialized(t) ==
    /\ UNCHANGED nonLazyVars
    /\ lazyPc[t] = "idle"
    /\ lazyCalls < MaxLazyCalls
    /\ init_once # "running"
    /\ lazyCalls' = lazyCalls + 1
    /\ init_once' = "complete"
    /\ everProbed' = TRUE
    /\ lazyProbe' = <<init_once = "complete", lazy_value # NoValue>>
    /\ UNCHANGED <<lazy_init, lazy_value, initRuns, lazyPc, lazyGot>>

\* C34: is_initialized() is a pure query: it returns true exactly when the
\* init function has completed, and however often it has been called a
\* later get() still runs init where needed and returns the value: no call
\* of get() panics, and one that returned found init run exactly once.
C34_IsInitializedIsPureQuery ==
    /\ lazyProbe # NoProbe =>
          lazyProbe[1] = lazyProbe[2]
    /\ \A t \in LazyThreads :
          /\ lazyPc[t] # "panicked"
          /\ lazyPc[t] = "return" => initRuns = 1
          /\ lazyGot[t] # NoValue => initRuns = 1

LazyNext ==
    \/ \E t \in LazyThreads : lazy_initialize(t)
    \/ \E t \in LazyThreads : call_once(t)
    \/ \E t \in LazyThreads : ClosureRun(t)
    \/ \E t \in LazyThreads : ClosureStore(t)
    \/ \E t \in LazyThreads : LazyReturn(t)
    \/ \E t \in LazyThreads : is_initialized(t)

(***************************************************************************)
(* Part XVIII: ConditionalLazy (core/lib/startup/lazy_init.rs): a Lazy     *)
(* behind a predicate.  get() and force_initialize() hold the evaluated    *)
(* mutex from their first line to their return, so calls run one at a      *)
(* time.                                                                   *)
(***************************************************************************)
\* What a call ends with when it is not a value of the component:
\* Option::None, or a panic.
ReturnsNone == NoValue
Panics == 0 - 1

\* ConditionalLazy::new with the given predicate.
CondNew(predicate) ==
    /\ cond_predicate = predicate
    /\ cond_evaluated = FALSE
    /\ cond_once = "incomplete"
    /\ cond_value = NoValue
    /\ condInitRuns = 0
    /\ condPoisoned = FALSE
    /\ condLog = <<>>

CondInit == CondNew(TRUE)

\* A call ends: what it returned goes to the log, and a panic poisons the
\* evaluated mutex, whose guard the call still holds.
CondEnds(call, result, runs) ==
    /\ condLog' = Append(condLog, <<call, result, runs>>)
    /\ condPoisoned' = (result = Panics)

\* self.inner.initialize(): call_once runs the closure while the Once is
\* incomplete; then the value is unwrapped.
InnerInitialize(call) ==
    IF cond_once = "incomplete"
    THEN /\ cond_once' = "complete"
         /\ condInitRuns' = condInitRuns + 1
         /\ cond_value' = Built(condInitRuns + 1)
         /\ CondEnds(call, Built(condInitRuns + 1), condInitRuns + 1)
    ELSE /\ UNCHANGED <<cond_once, condInitRuns, cond_value>>
         /\ CondEnds(call, IF cond_value = NoValue THEN Panics
                           ELSE cond_value, condInitRuns)

\* self.inner.is_initialized(): call_once_force completes an incomplete
\* Once; the answer is whether the Once was complete already.
InnerIsInitialized == cond_once = "complete"

\* ConditionalLazy::get.
cond_get ==
    /\ UNCHANGED nonCondVars
    /\ Len(condLog) < MaxCondCalls
    /\ UNCHANGED cond_predicate
    /\ IF condPoisoned
       THEN /\ CondEnds("get", Panics, condInitRuns)
            /\ UNCHANGED <<cond_evaluated, cond_once, cond_value,
                           condInitRuns>>
       ELSE IF ~cond_evaluated
       THEN /\ cond_evaluated' = TRUE
            /\ IF cond_predicate
               THEN InnerInitialize("get")
               ELSE /\ CondEnds("get", ReturnsNone, condInitRuns)
                    /\ UNCHANGED <<cond_once, cond_value, condInitRuns>>
       ELSE /\ UNCHANGED cond_evaluated
            /\ IF InnerIsInitialized
               THEN InnerInitialize("get")
               ELSE /\ cond_once' = "complete"
                    /\ CondEnds("get", ReturnsNone, condInitRuns)
                    /\ UNCHANGED <<cond_value, condInitRuns>>

\* ConditionalLazy::force_initialize.
force_initialize ==
    /\ UNCHANGED nonCondVars
    /\ Len(condLog) < MaxCondCalls
    /\ UNCHANGED cond_predicate
    /\ IF condPoisoned
       THEN /\ CondEnds("force_initialize", Panics, condInitRuns)
            /\ UNCHANGED <<cond_evaluated, cond_once, cond_value,
                           condInitRuns>>
       ELSE /\ cond_evaluated' = TRUE
            /\ InnerInitialize("force_initialize")

\* No force_initialize() among the first n calls.
OnlyGets(n) == \A j \in 1..n : condLog[j][1] = "get"

\* C31: on a ConditionalLazy whose predicate is false, every get() made
\* before any force_initialize() returns None with init not run, and the
\* first force_initialize() after them finds init run exactly once and
\* returns the value.
C31_FalsePredicateGetsNoneThenForce ==
    ~cond_predicate =>
        \A i \in 1..Len(condLog) :
            OnlyGets(i - 1) =>
                IF condLog[i][1] = "get"
                THEN condLog[i][2] = ReturnsNone /\ condLog[i][3] = 0
                ELSE condLog[i][2] = Built(1) /\ condLog[i][3] = 1

CondNext ==
    \/ cond_get
    \/ force_initialize

(***************************************************************************)
(* Part XIX: start_auto_flush, stop_auto_flush and the task they control   *)
(* (core/lib/transport/buffer.rs AutoFlushBuffer and the extension's       *)
(* LambdaTelemetryExtension, which share one shape).                       *)
(***************************************************************************)
AutoTasks == 1..MaxAutoTasks

\* new: the flag is false and no task has been spawned.
AutoInit ==
    /\ auto_flush_running = FALSE
    /\ autoTask = [t \in AutoTasks |-> "unspawned"]
    /\ autoSpawned = 0
    /\ autoLateFlush = FALSE

\* The tasks that have been spawned and have not left their loop.
AliveTasks == {t \in AutoTasks : autoTask[t] \in {"load", "tick", "flush"}}

\* start_auto_flush: swap(true); when the flag was false a task is spawned,
\* which starts at the condition of its while loop.
start_auto_flush ==
    /\ UNCHANGED nonAutoVars
    /\ autoSpawned < MaxAutoTasks
    /\ auto_flush_running' = TRUE
    /\ IF auto_flush_running
       THEN UNCHANGED <<autoTask, autoSpawned>>
       ELSE /\ autoSpawned' = autoSpawned + 1
            /\ autoTask' = [autoTask EXCEPT ![autoSpawned + 1] = "load"]
    /\ UNCHANGED autoLateFlush

\* stop_auto_flush: store(false).
stop_auto_flush ==
    /\ UNCHANGED nonAutoVars
    /\ auto_flush_running' = FALSE
    /\ UNCHANGED <<autoTask, autoSpawned, autoLateFlush>>

\* The task evaluates `while running.load()`: it goes on to wait for the
\* timer, or leaves the loop and ends.
AutoLoad(t) ==
    /\ UNCHANGED nonAutoVars
    /\ autoTask[t] = "load"
    /\ autoTask' = [autoTask EXCEPT ![t] =
                       IF auto_flush_running THEN "tick" ELSE "exited"]
    /\ UNCHANGED <<auto_flush_running, autoSpawned, autoLateFlush>>

\* interval_timer.tick().await completes and the task begins its flush.
AutoTick(t) ==
    /\ UNCHANGED nonAutoVars
    /\ autoTask[t] = "tick"
    /\ autoTask' = [autoTask EXCEPT ![t] = "flush"]
    /\ autoLateFlush' = (autoLateFlush \/ ~auto_flush_running)
    /\ UNCHANGED <<auto_flush_running, autoSpawned>>

\* The flush has completed: back to the condition of the loop.
AutoFlushed(t) ==
    /\ UNCHANGED nonAutoVars
    /\ autoTask[t] = "flush"
    /\ autoTask' = [autoTask EXCEPT ![t] = "load"]
    /\ UNCHANGED <<auto_flush_running, autoSpawned, autoLateFlush>>

\* C35: whatever start_auto_flush and stop_auto_flush calls have been made,
\* at most one auto-flush task is alive.
C35_AtMostOneAutoFlushTask == Cardinality(AliveTasks) <= 1

\* C36: no auto-flush task begins a flush after stop_auto_flush() has
\* returned, that is, while the flag that the call cleared is still clear.
C36_NoFlushAfterStop == ~autoLateFlush

AutoNext ==
    \/ start_auto_flush
    \/ stop_auto_flush
    \/ \E t \in AutoTasks : AutoLoad(t)
    \/ \E t \in AutoTasks : AutoTick(t)
    \/ \E t \in AutoTasks : AutoFlushed(t)

(***************************************************************************)
(* Part XX: the collectors of a TelemetryRegistry with their               *)
(* CollectorConfig.enabled, and the ways collect() is reached              *)
(* (telemetry/src/registry.rs, telemetry/src/manager.rs).                  *)
(***************************************************************************)
\* The collectors of this part (all of Interval frequency, as
\* register_built_in_collectors creates them, in one group).
TelIds == {"cpu", "mem", "net"}

\* TelemetryRegistry::new.
TelInit ==
    /\ telCollectors = [id \in TelIds |-> "absent"]
    /\ telGroup = <<>>
    /\ telStarted = FALSE
    /\ telTaskIdx = 0
    /\ calledDisabled = {}

\* collector.collect() is invoked on the collector registered under id.
CollectInvoked(ids) ==
    calledDisabled' =
        calledDisabled \cup {id \in ids : telCollectors[id] = "disabled"}

\* register_built_in_collectors for one factory: a collector is created
\* with enabled = metadata.enabled_by_default and inserted under its id.
telemetry_register_collector(id, enabled_by_default) ==
    /\ UNCHANGED nonTelVars
    /\ ~telStarted
    /\ telCollectors[id] = "absent"
    /\ telCollectors' = [telCollectors EXCEPT ![id] =
                            IF enabled_by_default THEN "enabled"
                            ELSE "disabled"]
    /\ UNCHANGED <<telGroup, telStarted, telTaskIdx, calledDisabled>>

\* TelemetryManager::start_collection_intervals: the ids of the Interval
\* collectors are grouped, in an order the HashMap decides, and a task is
\* spawned for the group.
telemetry_start_collection_intervals(order) ==
    /\ UNCHANGED nonTelVars
    /\ ~telStarted
    /\ Range(order) = {id \in TelIds : telCollectors[id] # "absent"}
    /\ Len(order) = Cardinality(Range(order))
    /\ telGroup' = order
    /\ telStarted' = TRUE
    /\ UNCHANGED <<telCollectors, telTaskIdx, calledDisabled>>

\* The interval task: ticker.tick() returns.
TelTaskTick ==
    /\ UNCHANGED nonTelVars
    /\ telStarted
    /\ telGroup # <<>>
    /\ telTaskIdx = 0
    /\ telTaskIdx' = 1
    /\ UNCHANGED <<telCollectors, telGroup, telStarted, calledDisabled>>

\* TelemetryRegistry::collect_from(id): an unknown id is an error,
\* otherwise collect() is invoked.
TelCollectFrom(id) ==
    CollectInvoked({id} \cap {i \in TelIds : telCollectors[i] # "absent"})

\* The interval task: registry.collect_from for the next id of its group.
TelTaskCollect ==
    /\ UNCHANGED nonTelVars
    /\ telTaskIdx > 0
    /\ TelCollectFrom(telGroup[telTaskIdx])
    /\ telTaskIdx' = IF telTaskIdx < Len(telGroup) THEN telTaskIdx + 1 ELSE 0
    /\ UNCHANGED <<telCollectors, telGroup, telStarted>>

\* TelemetryRegistry::collect_from called from outside the task.
telemetry_collect_from(id) ==
    /\ UNCHANGED nonTelVars
    /\ TelCollectFrom(id)
    /\ UNCHANGED <<telCollectors, telGroup, telStarted, telTaskIdx>>

\* TelemetryRegistry::collect_metrics: collect() on every collector.
collect_metrics ==
    /\ UNCHANGED nonTelVars
    /\ CollectInvoked({id \in TelIds : telCollectors[id] # "absent"})
    /\ UNCHANGED <<telCollectors, telGroup, telStarted, telTaskIdx>>

\* TelemetryRegistry::unregister_collector.
unregister_collector(id) ==
    /\ UNCHANGED nonTelVars
    /\ telCollectors[id] # "absent"
    /\ telCollectors' = [telCollectors EXCEPT ![id] = "absent"]
    /\ UNCHANGED <<telGroup, telStarted, telTaskIdx, calledDisabled>>

\* C39: collect() is never invoked on a collector whose configuration has
\* enabled = false, neither by an interval tick nor by collect_from nor by
\* the collection from all collectors.
C39_DisabledNeverCollected == calledDisabled = {}

TelNext ==
    \/ \E id \in TelIds, enabled_by_default \in BOOLEAN :
           telemetry_register_collector(id, enabled_by_default)
    \/ \E order \in UNION {[1..n -> TelIds] : n \in 0..Cardinality(TelIds)} :
           telemetry_start_collection_intervals(order)
    \/ TelTaskTick
    \/ TelTaskCollect
    \/ \E id \in TelIds : telemetry_collect_from(id)
    \/ collect_metrics
    \/ \E id \in TelIds : unregister_collector(id)

(***************************************************************************)
(* Specifications: each part runs with the other parts at rest.            *)
(***************************************************************************)
\* The shipper starts from any of the scratch files, the other parts at rest.
InitShip == ShipInit /\ PipeInit /\ MgrInit /\ RegInit /\ ExtInit /\ ColdInit /\ FreezeInit /\ PersistInit /\ StagingInit /\ EvInit /\ PathInit /\ RetryInit /\ PoolInit /\ PreloadInit /\ FieldInit /\ CompactInit /\ LazyInit /\ CondInit /\ AutoInit /\ TelInit
SpecShip == InitShip /\ [][ShipNext]_vars

\* The other specifications start with no scratch file.
InitPipe == PipeInit /\ ShipInit /\ scratchFile = <<>> /\ MgrInit /\ RegInit /\ ExtInit /\ ColdInit /\ FreezeInit /\ PersistInit /\ StagingInit /\ EvInit /\ PathInit /\ RetryInit /\ PoolInit /\ PreloadInit /\ FieldInit /\ CompactInit /\ LazyInit /\ CondInit /\ AutoInit /\ TelInit
SpecPipe == InitPipe /\ [][PipeNext]_vars

InitMgr == MgrInit /\ ShipInit /\ scratchFile = <<>> /\ PipeInit /\ RegInit /\ ExtInit /\ ColdInit /\ FreezeInit /\ PersistInit /\ StagingInit /\ EvInit /\ PathInit /\ RetryInit /\ PoolInit /\ PreloadInit /\ FieldInit /\ CompactInit /\ LazyInit /\ CondInit /\ AutoInit /\ TelInit
SpecMgr == InitMgr /\ [][MgrNext]_vars

InitReg == RegInit /\ ShipInit /\ scratchFile = <<>> /\ PipeInit /\ MgrInit /\ ExtInit /\ ColdInit /\ FreezeInit /\ PersistInit /\ StagingInit /\ EvInit /\ PathInit /\ RetryInit /\ PoolInit /\ PreloadInit /\ FieldInit /\ CompactInit /\ LazyInit /\ CondInit /\ AutoInit /\ TelInit
SpecReg == InitReg /\ [][RegNext]_vars

\* The extension starts with a scratch file left by an earlier process.
InitExt == ExtInit /\ ShipInit /\ PipeInit /\ MgrInit /\ RegInit /\ ColdInit /\ FreezeInit /\ PersistInit /\ StagingInit /\ EvInit /\ PathInit /\ RetryInit /\ PoolInit /\ PreloadInit /\ FieldInit /\ CompactInit /\ LazyInit /\ CondInit /\ AutoInit /\ TelInit
SpecExt == InitExt /\ [][ExtNext]_vars

\* The runtime keeps polling the closure: a step of the handler that stays
\* possible is taken.
SpecExtFair == InitExt /\ [][ExtNext]_vars /\ WF_vars(HandlerStep)

InitCold == ColdInit /\ ShipInit /\ scratchFile = <<>> /\ PipeInit /\ MgrInit /\ RegInit /\ ExtInit /\ FreezeInit /\ PersistInit /\ StagingInit /\ EvInit /\ PathInit /\ RetryInit /\ PoolInit /\ PreloadInit /\ FieldInit /\ CompactInit /\ LazyInit /\ CondInit /\ AutoInit /\ TelInit
SpecCold == InitCold /\ [][ColdNext]_vars

InitFreeze == (\E threshold \in 0..MaxThreshold : FreezeNew(threshold)) /\ ShipInit /\ scratchFile = <<>> /\ PipeInit /\ MgrInit /\ RegInit /\ ExtInit /\ ColdInit /\ PersistInit /\ StagingInit /\ EvInit /\ PathInit /\ RetryInit /\ PoolInit /\ PreloadInit /\ FieldInit /\ CompactInit /\ LazyInit /\ CondInit /\ AutoInit /\ TelInit
SpecFreeze == InitFreeze /\ [][FreezeNext]_vars

InitPersist == PersistInit /\ ShipInit /\ scratchFile = <<>> /\ PipeInit /\ MgrInit /\ RegInit /\ ExtInit /\ ColdInit /\ FreezeInit /\ StagingInit /\ EvInit /\ PathInit /\ RetryInit /\ PoolInit /\ PreloadInit /\ FieldInit /\ CompactInit /\ LazyInit /\ CondInit /\ AutoInit /\ TelInit
SpecPersist == InitPersist /\ [][PersistNext]_vars

InitStaging == StagingInit /\ ShipInit /\ scratchFile = <<>> /\ PipeInit /\ MgrInit /\ RegInit /\ ExtInit /\ ColdInit /\ FreezeInit /\ PersistInit /\ EvInit /\ PathInit /\ RetryInit /\ PoolInit /\ PreloadInit /\ FieldInit /\ CompactInit /\ LazyInit /\ CondInit /\ AutoInit /\ TelInit
SpecStaging == InitStaging /\ [][StagingNext]_vars

InitEv == (\E size \in 1..MaxSize, threshold \in 1..(MaxSize + 1) : EvNew(size, threshold)) /\ ShipInit /\ scratchFile = <<>> /\ PipeInit /\ MgrInit /\ RegInit /\ ExtInit /\ ColdInit /\ FreezeInit /\ PersistInit /\ StagingInit /\ PathInit /\ RetryInit /\ PoolInit /\ PreloadInit /\ FieldInit /\ CompactInit /\ LazyInit /\ CondInit /\ AutoInit /\ TelInit
SpecEv == InitEv /\ [][EvNext]_vars

InitPath == (\E procs \in PathPipelines : PathNew(procs)) /\ ShipInit /\ scratchFile = <<>> /\ PipeInit /\ MgrInit /\ RegInit /\ ExtInit /\ ColdInit /\ FreezeInit /\ PersistInit /\ StagingInit /\ EvInit /\ RetryInit /\ PoolInit /\ PreloadInit /\ FieldInit /\ CompactInit /\ LazyInit /\ CondInit /\ AutoInit /\ TelInit
SpecPath == InitPath /\ [][PathNext]_vars

InitRetry == ((\E retries \in 0..MaxRetries, initial \in 1..MaxDelay, maxd \in 1..MaxDelay, halves \in BackoffHalves : HttpNew("idle", retries, initial, maxd, halves) /\ ShipRetryNew("none", 3, 1)) \/ (\E attempts \in 0..MaxRetries, rdelay \in 1..MaxDelay : HttpNew("none", 3, 1, 1, 4) /\ ShipRetryNew("idle", attempts, rdelay))) /\ ShipInit /\ scratchFile = <<>> /\ PipeInit /\ MgrInit /\ RegInit /\ ExtInit /\ ColdInit /\ FreezeInit /\ PersistInit /\ StagingInit /\ PathInit /\ EvInit /\ PoolInit /\ PreloadInit /\ FieldInit /\ CompactInit /\ LazyInit /\ CondInit /\ AutoInit /\ TelInit
SpecRetry == InitRetry /\ [][RetryNext]_vars

InitPool == (\E size \in 1..MaxPoolSlots : PoolNew(size)) /\ ShipInit /\ scratchFile = <<>> /\ PipeInit /\ MgrInit /\ RegInit /\ ExtInit /\ ColdInit /\ FreezeInit /\ PersistInit /\ StagingInit /\ PathInit /\ RetryInit /\ EvInit /\ PreloadInit /\ FieldInit /\ CompactInit /\ LazyInit /\ CondInit /\ AutoInit /\ TelInit
SpecPool == InitPool /\ [][PoolNext]_vars

InitPreload == PreloadInit /\ ShipInit /\ scratchFile = <<>> /\ PipeInit /\ MgrInit /\ RegInit /\ ExtInit /\ ColdInit /\ FreezeInit /\ PersistInit /\ StagingInit /\ PathInit /\ RetryInit /\ PoolInit /\ EvInit /\ FieldInit /\ CompactInit /\ LazyInit /\ CondInit /\ AutoInit /\ TelInit
SpecPreload == InitPreload /\ [][PreloadNext]_vars

InitField == FieldInit /\ ShipInit /\ scratchFile = <<>> /\ PipeInit /\ MgrInit /\ RegInit /\ ExtInit /\ ColdInit /\ FreezeInit /\ PersistInit /\ StagingInit /\ PathInit /\ RetryInit /\ PoolInit /\ PreloadInit /\ EvInit /\ CompactInit /\ LazyInit /\ CondInit /\ AutoInit /\ TelInit
SpecField == InitField /\ [][FieldNext]_vars

InitCompact == CompactInit /\ ShipInit /\ scratchFile = <<>> /\ PipeInit /\ MgrInit /\ RegInit /\ ExtInit /\ ColdInit /\ FreezeInit /\ PersistInit /\ StagingInit /\ PathInit /\ RetryInit /\ PoolInit /\ PreloadInit /\ FieldInit /\ EvInit /\ LazyInit /\ CondInit /\ AutoInit /\ TelInit
SpecCompact == InitCompact /\ [][CompactNext]_vars

InitLazy == LazyInit /\ ShipInit /\ scratchFile = <<>> /\ PipeInit /\ MgrInit /\ RegInit /\ ExtInit /\ ColdInit /\ FreezeInit /\ PersistInit /\ StagingInit /\ PathInit /\ RetryInit /\ PoolInit /\ PreloadInit /\ FieldInit /\ CompactInit /\ EvInit /\ CondInit /\ AutoInit /\ TelInit
SpecLazy == InitLazy /\ [][LazyNext]_vars

InitCond == (\E predicate \in BOOLEAN : CondNew(predicate)) /\ ShipInit /\ scratchFile = <<>> /\ PipeInit /\ MgrInit /\ RegInit /\ ExtInit /\ ColdInit /\ FreezeInit /\ PersistInit /\ StagingInit /\ PathInit /\ RetryInit /\ PoolInit /\ PreloadInit /\ FieldInit /\ CompactInit /\ LazyInit /\ EvInit /\ AutoInit /\ TelInit
SpecCond == InitCond /\ [][CondNext]_vars

InitAuto == AutoInit /\ ShipInit /\ scratchFile = <<>> /\ PipeInit /\ MgrInit /\ RegInit /\ ExtInit /\ ColdInit /\ FreezeInit /\ PersistInit /\ StagingInit /\ PathInit /\ RetryInit /\ PoolInit /\ PreloadInit /\ FieldInit /\ CompactInit /\ LazyInit /\ CondInit /\ EvInit /\ TelInit
SpecAuto == InitAuto /\ [][AutoNext]_vars

InitTel == TelInit /\ ShipInit /\ scratchFile = <<>> /\ PipeInit /\ MgrInit /\ RegInit /\ ExtInit /\ ColdInit /\ FreezeInit /\ PersistInit /\ StagingInit /\ PathInit /\ RetryInit /\ PoolInit /\ PreloadInit /\ FieldInit /\ CompactInit /\ LazyInit /\ CondInit /\ AutoInit /\ EvInit
SpecTel == InitTel /\ [][TelNext]_vars

====
